---- MODULE Spec2Model ----
(***************************************************************************)
(* Resume / job-description fit scoring (backend/ml): the skill matcher,   *)
(* the experience scorer, the final scorer, the semantic coverage scorer,  *)
(* the sentence splitter, the explanation and the pipeline's evaluate,     *)
(* each as the state machine of one call; MLService (backend/app) as a     *)
(* sequence of calls and as two calls running at the same time; the        *)
(* category-weighted skill score and the embedding-based skill matcher;    *)
(* the PDF text extraction and the handler of POST /evaluate.              *)
(*                                                                         *)
(* Texts are TLA+ strings (Len, SubSeq, Head, Tail and \o work on them).   *)
(* Python floats are modelled as exact rationals <<n, d>> in lowest terms  *)
(* with d > 0, so the model says nothing about binary rounding error.      *)
(***************************************************************************)
EXTENDS Integers, Sequences, FiniteSets, TLC

VARIABLES
    pc,                     \* position of the call: "start", "done", "raised"
    resume_text,            \* argument resume_text
    job_description_text,   \* argument job_description_text
    resume_skills,          \* match_skills: extract_skills(resume_text)
    jd_required_skills,     \* match_skills: extract_skills(job_description_text)
    matched_skills,         \* match_skills: first element of the returned tuple
    missing_skills,         \* match_skills: second element of the returned tuple
    overlap_score,          \* match_skills: third element of the returned tuple
    text,                   \* _extract_years_of_experience: argument text
    year_mentions,          \* _extract_years_of_experience: re.findall's list
    max_years,              \* _extract_years_of_experience: the returned value
    candidate_years,        \* compute_experience_score: years found in the resume
    required_years,         \* compute_experience_score: years found in the job description
    experience_score,       \* compute_experience_score: the returned value
    earlier_call,           \* the caller's record of its previous call: <<>> or <<record>>
    calls,                  \* number of compute_experience_score calls started
    semantic_similarity,    \* compute_final_score: argument semantic_similarity
    skill_overlap,          \* compute_final_score: argument skill_overlap
    fit_score,              \* compute_final_score: the returned value
    source_embeddings,      \* average_max_cosine_similarity: argument source_embeddings
    target_embeddings,      \* average_max_cosine_similarity: argument target_embeddings
    max_similarities,       \* average_max_cosine_similarity: similarity_matrix.max(axis=1)
    average_similarity,     \* average_max_cosine_similarity: the mean before clipping
    raised                  \* the ValueError raised by _validate_embeddings, if any

textVars == <<resume_text, job_description_text>>
skillVars == <<resume_skills, jd_required_skills, matched_skills, missing_skills, overlap_score>>
yearVars == <<text, year_mentions, max_years>>
experienceVars == <<candidate_years, required_years, experience_score, earlier_call, calls>>
finalVars == <<semantic_similarity, skill_overlap, fit_score>>
similarityVars == <<source_embeddings, target_embeddings, max_similarities,
                    average_similarity, raised>>

VARIABLES
    sentences,              \* _tokenize_into_sentences: the returned list
    explanation,            \* _generate_explanation: the returned string
    embedding_model,        \* ResumeJobFitPipeline.embedding_model
    resume_sentences,       \* evaluate: _tokenize_into_sentences(resume_text)
    jd_sentences,           \* evaluate: _tokenize_into_sentences(job_description_text)
    resume_embeddings,      \* evaluate: embedding_model.encode(resume_sentences)
    jd_embeddings,          \* evaluate: embedding_model.encode(jd_sentences)
    steps,                  \* evaluate: the steps that have run, in order
    result,                 \* evaluate: the returned dictionary
    _pipeline_initialized,  \* MLService._pipeline_initialized
    pipelines_constructed,  \* how many ResumeJobFitPipeline objects the process has built
    pipeline_calls,         \* analyze_resume_job_fit invocations of the current call
    requests                \* concurrent evaluate_fit calls: each caller's frame

sentenceVars == <<sentences>>
explanationVars == <<explanation>>
evaluateVars == <<embedding_model, resume_sentences, jd_sentences, resume_embeddings,
                  jd_embeddings, steps, result>>
serviceVars == <<_pipeline_initialized, pipelines_constructed, pipeline_calls, requests>>
pipelineVars == <<sentenceVars, explanationVars, evaluateVars, serviceVars>>

VARIABLES
    required_skills,        \* compute_weighted_skill_score: argument required_skills
    weighted_skill_score,   \* compute_weighted_skill_score: the returned value
    skill_embeddings,       \* semantic_skill_match: argument skill_embeddings
    threshold,              \* semantic_skill_match: argument threshold
    semantic_matched,       \* semantic_skill_match: the returned set, matched
    filename,               \* evaluate_resume_job_fit: resume.filename
    file_content,           \* what PyPDF2 makes of the uploaded bytes
    full_text,              \* extract_text_from_pdf: " ".join(text_parts)
    response                \* evaluate_resume_job_fit: the result returned or the error raised

weightedVars == <<required_skills, weighted_skill_score>>
semanticVars == <<skill_embeddings, threshold, semantic_matched>>
uploadVars == <<filename, file_content, full_text, response>>
outerVars == <<weightedVars, semanticVars, uploadVars>>
vars == <<pc, textVars, skillVars, yearVars, experienceVars, finalVars, similarityVars,
          pipelineVars, outerVars>>

\* A local that has not been assigned yet.
Unset == "unset"

TextsUnset == resume_text = Unset /\ job_description_text = Unset
SkillsUnset ==
    /\ resume_skills = Unset
    /\ jd_required_skills = Unset
    /\ matched_skills = Unset
    /\ missing_skills = Unset
    /\ overlap_score = Unset
YearsUnset == text = Unset /\ year_mentions = Unset /\ max_years = Unset
ExperienceUnset ==
    /\ candidate_years = Unset
    /\ required_years = Unset
    /\ experience_score = Unset
    /\ earlier_call = Unset
    /\ calls = Unset
FinalUnset == semantic_similarity = Unset /\ skill_overlap = Unset /\ fit_score = Unset
SimilarityUnset ==
    /\ source_embeddings = Unset
    /\ target_embeddings = Unset
    /\ max_similarities = Unset
    /\ average_similarity = Unset
    /\ raised = Unset

SentencesUnset == sentences = Unset
ExplanationUnset == explanation = Unset
EvaluateUnset ==
    /\ embedding_model = Unset
    /\ resume_sentences = Unset
    /\ jd_sentences = Unset
    /\ resume_embeddings = Unset
    /\ jd_embeddings = Unset
    /\ steps = Unset
    /\ result = Unset
ServiceUnset ==
    /\ _pipeline_initialized = Unset
    /\ pipelines_constructed = Unset
    /\ pipeline_calls = Unset
    /\ requests = Unset
PipelineUnset == SentencesUnset /\ ExplanationUnset /\ EvaluateUnset /\ ServiceUnset
WeightedUnset == required_skills = Unset /\ weighted_skill_score = Unset
SemanticUnset == skill_embeddings = Unset /\ threshold = Unset /\ semantic_matched = Unset
UploadUnset ==
    /\ filename = Unset
    /\ file_content = Unset
    /\ full_text = Unset
    /\ response = Unset
OuterUnset == WeightedUnset /\ SemanticUnset /\ UploadUnset

-----------------------------------------------------------------------------
(* Floats as exact rationals.                                              *)

RECURSIVE GCD(_, _)
GCD(a, b) == IF b = 0 THEN a ELSE GCD(b, a % b)

Abs(n) == IF n < 0 THEN -n ELSE n

\* n / d in lowest terms, d # 0.
Rat(n, d) ==
    LET g == GCD(Abs(n), Abs(d))
        s == IF d < 0 THEN -1 ELSE 1
    IN <<(s * n) \div g, (s * d) \div g>>

Zero == <<0, 1>>
One == <<1, 1>>

RLeq(a, b) == a = b \/ a[1] * b[2] <= b[1] * a[2]
RLess(a, b) == a[1] * b[2] < b[1] * a[2]
RAdd(a, b) == Rat(a[1] * b[2] + b[1] * a[2], a[2] * b[2])
RMul(a, b) == Rat(a[1] * b[1], a[2] * b[2])
RDiv(a, b) == Rat(a[1] * b[2], a[2] * b[1])
RMin(a, b) == IF RLeq(a, b) THEN a ELSE b
RMax(a, b) == IF RLeq(b, a) THEN a ELSE b

-----------------------------------------------------------------------------
(* Characters and strings.                                                 *)

\* The characters of the model's texts in code-point order.
CodePoints == "\t\n +-./0123456789;ABCDEFGHIJKLMNOPQRSTUVWXYZabcdefghijklmnopqrstuvwxyz"
UpperCase == "ABCDEFGHIJKLMNOPQRSTUVWXYZ"
LowerCase == "abcdefghijklmnopqrstuvwxyz"
Digits == "0123456789"
Whitespace == "\t\n "

CharAt(s, i) == SubSeq(s, i, i)
IndexIn(s, c) == IF \E i \in 1..Len(s) : CharAt(s, i) = c
                 THEN CHOOSE i \in 1..Len(s) : CharAt(s, i) = c
                 ELSE 0
IsIn(s, c) == IndexIn(s, c) # 0
Ord(c) == IndexIn(CodePoints, c)

\* str.lower() on one character.
LowerChar(c) == IF IsIn(UpperCase, c) THEN CharAt(LowerCase, IndexIn(UpperCase, c)) ELSE c

RECURSIVE Lower(_)
Lower(s) == IF s = "" THEN "" ELSE LowerChar(Head(s)) \o Lower(Tail(s))

\* str.strip() leaves nothing: every character is whitespace.
IsBlank(s) == \A i \in 1..Len(s) : IsIn(Whitespace, CharAt(s, i))

\* needle in haystack
Contains(haystack, needle) ==
    \E i \in 1..(Len(haystack) - Len(needle) + 1) :
        SubSeq(haystack, i, i + Len(needle) - 1) = needle

\* a < b for Python strings: lexicographic by code point.
RECURSIVE StrLess(_, _)
StrLess(a, b) ==
    IF b = "" THEN FALSE
    ELSE IF a = "" THEN TRUE
    ELSE IF Head(a) = Head(b) THEN StrLess(Tail(a), Tail(b))
    ELSE Ord(Head(a)) < Ord(Head(b))

\* sorted(S) for a set of strings.
RECURSIVE Sorted(_)
Sorted(S) ==
    IF S = {} THEN <<>>
    ELSE LET m == CHOOSE x \in S : \A y \in S : x = y \/ StrLess(x, y)
         IN <<m>> \o Sorted(S \ {m})

Range(seq) == {seq[i] : i \in 1..Len(seq)}

\* Every concatenation of at most n words of the set W.
RECURSIVE Phrases(_, _)
Phrases(W, n) ==
    IF n = 0 THEN {""}
    ELSE LET shorter == Phrases(W, n - 1)
         IN shorter \cup {p \o w : p \in shorter, w \in W}

-----------------------------------------------------------------------------
(* Skill vocabulary, extraction and matching.                              *)

RECOGNIZED_SKILLS == {
    "python", "java", "c++", "c", "javascript", "typescript", "go",
    "golang", "rust", "scala", "kotlin", "bash", "sql", "r", "matlab",
    "machine learning", "deep learning", "artificial intelligence",
    "supervised learning", "unsupervised learning",
    "reinforcement learning", "nlp", "natural language processing",
    "computer vision", "cv", "speech recognition", "text classification",
    "information retrieval", "recommendation systems", "pytorch",
    "tensorflow", "keras", "scikit-learn", "xgboost", "lightgbm",
    "catboost", "huggingface", "transformers", "opencv", "spacy", "nltk",
    "pandas", "numpy", "scipy", "data analysis", "data science",
    "data engineering", "feature engineering", "data preprocessing",
    "data visualization", "power bi", "tableau", "fastapi", "django",
    "flask", "node.js", "express", "rest api", "graphql", "microservices",
    "mysql", "postgresql", "sqlite", "mongodb", "redis", "elasticsearch",
    "cassandra", "dynamodb", "docker", "kubernetes", "helm", "ci/cd",
    "github actions", "mlops", "model deployment", "model monitoring",
    "aws", "gcp", "azure", "ec2", "s3", "lambda", "cloud functions",
    "data structures", "algorithms", "operating systems",
    "computer networks", "dbms", "system design", "distributed systems",
    "parallel computing", "object oriented programming", "oop",
    "design patterns", "clean architecture", "unit testing",
    "integration testing", "debugging", "performance optimization", "git",
    "github", "gitlab", "linux", "unix", "jira", "confluence",
    "docker compose", "transformer models", "llms", "attention mechanism",
    "bert", "gpt", "time series forecasting", "anomaly detection"
}

\* re.sub(r"[^a-z0-9+ ]", " ", c) on one character.
NormalizeChar(c) ==
    IF IsIn(LowerCase, c) \/ IsIn(Digits, c) \/ c = "+" \/ c = " " THEN c ELSE " "

RECURSIVE ReplaceNonSkillChars(_)
ReplaceNonSkillChars(s) ==
    IF s = "" THEN "" ELSE NormalizeChar(Head(s)) \o ReplaceNonSkillChars(Tail(s))

_normalize_text(t) == ReplaceNonSkillChars(Lower(t))

\* Mutant: the skill has to stand as a word of its own.
OccursAsWord(normalized_text, skill) == Contains(" " \o normalized_text \o " ", " " \o skill \o " ")

\* skill_extractor.py:77: `skill in normalized_text`
Occurs(normalized_text, skill) == Contains(normalized_text, skill)

extract_skills(t) ==
    IF t = "" \/ IsBlank(t) THEN {}
    ELSE LET normalized_text == _normalize_text(t)
         IN {skill \in RECOGNIZED_SKILLS : Occurs(normalized_text, skill)}

\* Mutant: no requirement scored as no match.
NoRequirementScoreZero == Zero

\* The score returned when the job description requires no skill.
NoRequirementScore == One

\* Mutant: every required skill reported as matched.
MatchedOfEveryRequired(resume, required) == required

MatchedOf(resume, required) == resume \cap required
\* Mutant: the set difference taken the wrong way round.
MissingOfSwapped(resume, required) == resume \ required

MissingOf(resume, required) == required \ resume
OverlapOf(matched, required) == Rat(Cardinality(matched), Cardinality(required))

\* The words the skill matcher's texts are made of.
SkillWords == {"kubernetes", "Python", "java", "script", "; "}
MaxResumeWords == 1
MaxJdWords == 2

InitSkills ==
    /\ OuterUnset
    /\ pc = "start"
    /\ PipelineUnset
    /\ resume_text \in Phrases(SkillWords, MaxResumeWords)
    /\ job_description_text \in Phrases(SkillWords, MaxJdWords)
    /\ SkillsUnset
    /\ YearsUnset
    /\ ExperienceUnset
    /\ FinalUnset
    /\ SimilarityUnset

\* match_skills(resume_text, job_description_text)
MatchSkills ==
    /\ pc = "start"
    /\ LET rs == extract_skills(resume_text)
           js == extract_skills(job_description_text)
       IN /\ resume_skills' = rs
          /\ jd_required_skills' = js
          /\ IF js = {}
             THEN /\ matched_skills' = <<>>
                  /\ missing_skills' = <<>>
                  /\ overlap_score' = NoRequirementScore
             ELSE /\ matched_skills' = Sorted(MatchedOf(rs, js))
                  /\ missing_skills' = Sorted(MissingOf(rs, js))
                  /\ overlap_score' = OverlapOf(MatchedOf(rs, js), js)
    /\ pc' = "done"
    /\ UNCHANGED <<outerVars, pipelineVars, textVars, yearVars, experienceVars, finalVars, similarityVars>>

NextSkills == MatchSkills

SpecSkills == InitSkills /\ [][NextSkills]_vars

\* C1: whenever the job description's skill set J is non-empty, match_skills
\* returns matched and missing lists that partition J (their union is J and
\* they share no skill) and a ratio equal to len(matched) / len(J).
MatchSkillsPartitionsRequired ==
    (pc = "done" /\ jd_required_skills # {}) =>
        /\ Range(matched_skills) \cup Range(missing_skills) = jd_required_skills
        /\ Range(matched_skills) \cap Range(missing_skills) = {}
        /\ overlap_score[1] * Cardinality(jd_required_skills)
               = Len(matched_skills) * overlap_score[2]

MatchSkillsPartitionsRequired_witness ==
    /\ pc = "done"
    /\ jd_required_skills # {}
    /\ matched_skills # <<>>
    /\ missing_skills # <<>>

\* C2: when the job description yields no vocabulary skill (the empty job
\* description included), match_skills returns ([], [], 1.0) whatever skills
\* the resume contains.
NoRequiredSkillsGivesPerfectScore ==
    (pc = "done" /\ (jd_required_skills = {} \/ job_description_text = "")) =>
        /\ matched_skills = <<>>
        /\ missing_skills = <<>>
        /\ overlap_score = <<1, 1>>

NoRequiredSkillsGivesPerfectScore_witness ==
    /\ pc = "done"
    /\ job_description_text # ""
    /\ jd_required_skills = {}
    /\ resume_skills # {}

\* C3: an empty resume against the job description "kubernetes" gives
\* matched_skills == [] and missing_skills == ["kubernetes"].
KubernetesAloneIsMissing ==
    (pc = "done" /\ resume_text = "" /\ job_description_text = "kubernetes") =>
        /\ matched_skills = <<>>
        /\ missing_skills = <<"kubernetes">>

-----------------------------------------------------------------------------
(* Years of experience: re.findall(r"(\d+(?:\.\d+)?)\s*\+?\s*years?", ...)  *)

\* The index just past the longest run of characters of class cls starting
\* at index i of s (i itself when there is none).
RECURSIVE RunEnd(_, _, _)
RunEnd(s, cls, i) ==
    IF i <= Len(s) /\ IsIn(cls, CharAt(s, i)) THEN RunEnd(s, cls, i + 1) ELSE i

\* The index just past (\d+(?:\.\d+)?) matched at i, or i when it fails.
\* The quantifiers are greedy, and giving a digit back never helps: what
\* follows would have to start at a digit.
NumberEnd(s, i) ==
    LET a == RunEnd(s, Digits, i)
    IN IF a = i THEN i
       ELSE IF a <= Len(s) /\ CharAt(s, a) = "." /\ RunEnd(s, Digits, a + 1) > a + 1
            THEN RunEnd(s, Digits, a + 1)
            ELSE a

\* Mutant: \+?\s*, no whitespace before the plus sign.
UnitStartAtPlus(s, b) ==
    RunEnd(s, Whitespace, IF b <= Len(s) /\ CharAt(s, b) = "+" THEN b + 1 ELSE b)

\* The index where "year" has to start after a number that ends before b:
\* \s*\+?\s*
UnitStart(s, b) ==
    LET c == RunEnd(s, Whitespace, b)
        e == IF c <= Len(s) /\ CharAt(s, c) = "+" THEN c + 1 ELSE c
    IN RunEnd(s, Whitespace, e)

\* The pattern matched at index i: <<the captured number, the index just
\* past the match>>, or <<>> when it does not match there.
YearsMatchAt(s, i) ==
    LET b == NumberEnd(s, i)
        u == UnitStart(s, b)
    IN IF b > i /\ u + 3 <= Len(s) /\ SubSeq(s, u, u + 3) = "year"
       THEN <<SubSeq(s, i, b - 1),
              IF u + 4 <= Len(s) /\ CharAt(s, u + 4) = "s" THEN u + 5 ELSE u + 4>>
       ELSE <<>>

\* re.findall from index i: leftmost matches, none overlapping, each
\* contributing its captured group.
RECURSIVE FindAllYears(_, _)
FindAllYears(s, i) ==
    IF i > Len(s) THEN <<>>
    ELSE LET m == YearsMatchAt(s, i)
         IN IF m = <<>> THEN FindAllYears(s, i + 1)
            ELSE <<m[1]>> \o FindAllYears(s, m[2])

RECURSIVE Pow10(_)
Pow10(k) == IF k = 0 THEN 1 ELSE 10 * Pow10(k - 1)

\* int(s) for a string of digits.
RECURSIVE ParseInt(_)
ParseInt(s) ==
    IF s = "" THEN 0
    ELSE 10 * ParseInt(SubSeq(s, 1, Len(s) - 1)) + (IndexIn(Digits, CharAt(s, Len(s))) - 1)

\* float(s) for a captured number: digits, or digits "." digits.
ParseFloat(s) ==
    LET dot == IndexIn(s, ".")
    IN IF dot = 0 THEN Rat(ParseInt(s), 1)
       ELSE LET frac == SubSeq(s, dot + 1, Len(s))
            IN Rat(ParseInt(SubSeq(s, 1, dot - 1)) * Pow10(Len(frac)) + ParseInt(frac),
                   Pow10(Len(frac)))

\* Mutant: the first mention instead of the largest.
FirstYears(years_as_floats) == years_as_floats[1]

\* max(years_as_floats), the list not empty.
RECURSIVE MaxYears(_)
MaxYears(years_as_floats) ==
    IF Len(years_as_floats) = 1 THEN years_as_floats[1]
    ELSE RMax(years_as_floats[1], MaxYears(Tail(years_as_floats)))

YearsOfMentions(mentions) ==
    IF mentions = <<>> THEN Zero
    ELSE MaxYears([i \in 1..Len(mentions) |-> ParseFloat(mentions[i])])

_extract_years_of_experience(t) == YearsOfMentions(FindAllYears(Lower(t), 1))

\* The words the texts of the years extractor are made of.
YearWords == {"3", "12", ".5", " ", "+", "years", "Yearly"}
MaxYearWords == 4

InitYears ==
    /\ OuterUnset
    /\ pc = "start"
    /\ PipelineUnset
    /\ text \in Phrases(YearWords, MaxYearWords)
    /\ year_mentions = Unset
    /\ max_years = Unset
    /\ TextsUnset
    /\ SkillsUnset
    /\ ExperienceUnset
    /\ FinalUnset
    /\ SimilarityUnset

\* _extract_years_of_experience(text)
ExtractYears ==
    /\ pc = "start"
    /\ year_mentions' = FindAllYears(Lower(text), 1)
    /\ max_years' = YearsOfMentions(year_mentions')
    /\ pc' = "done"
    /\ UNCHANGED <<outerVars, pipelineVars, text, textVars, skillVars, experienceVars, finalVars, similarityVars>>

NextYears == ExtractYears

SpecYears == InitYears /\ [][NextYears]_vars

\* C6: _extract_years_of_experience returns the largest of the numbers the
\* years pattern matched (it is one of them and no other exceeds it), 0.0
\* when nothing matched, so never a negative value, and 0.0 for the empty
\* text.
ExtractedYearsIsMaximumMention ==
    pc = "done" =>
        LET found == {ParseFloat(year_mentions[i]) : i \in 1..Len(year_mentions)}
        IN /\ year_mentions = <<>> => max_years = <<0, 1>>
           /\ year_mentions # <<>> =>
                  /\ max_years \in found
                  /\ \A y \in found : RLeq(y, max_years)
           /\ max_years[1] >= 0 /\ max_years[2] > 0
           /\ text = "" => max_years = <<0, 1>>

\* Two mentions, the first not the largest, and the largest not their sum.
ExtractedYearsIsMaximumMention_witness ==
    /\ pc = "done"
    /\ Len(year_mentions) >= 2
    /\ max_years # ParseFloat(year_mentions[1])
    /\ max_years = ParseFloat(year_mentions[2])

-----------------------------------------------------------------------------
(* Experience score.                                                       *)

\* Mutant: the ratio is not capped.
UncappedRatio(experience_ratio) == experience_ratio

\* min(experience_ratio, 1.0)
CapRatio(experience_ratio) == RMin(experience_ratio, One)

\* Mutant: required over candidate.
InvertedRatio(candidate, required) ==
    IF candidate[1] = 0 THEN One ELSE RDiv(required, candidate)

\* candidate_years / required_years
ExperienceRatio(candidate, required) == RDiv(candidate, required)

ExperienceScoreOf(candidate, required) ==
    IF RLeq(required, Zero) THEN One
    ELSE RMax(Zero, CapRatio(ExperienceRatio(candidate, required)))

compute_experience_score(resume, jd) ==
    ExperienceScoreOf(_extract_years_of_experience(resume),
                      _extract_years_of_experience(jd))

\* str(n) for a natural number.
RECURSIVE NumStr(_)
NumStr(n) ==
    IF n < 10 THEN CharAt(Digits, n + 1)
    ELSE NumStr(n \div 10) \o CharAt(Digits, (n % 10) + 1)

\* The texts of the experience scorer: a stated number of years in one of
\* three phrasings, or no statement at all.
MaxStatedYears == 5
MaxCalls == 2

ExperiencePhrasings == {
    <<"Python developer with ", " years of experience">>,
    <<"Looking for ", "+ years experience with Python">>,
    <<"", ".5 years">>
}

ExperienceTexts ==
    {"", "Recent college graduate"}
        \cup {ph[1] \o NumStr(n) \o ph[2] : n \in 0..MaxStatedYears, ph \in ExperiencePhrasings}

InitExperience ==
    /\ OuterUnset
    /\ pc = "start"
    /\ PipelineUnset
    /\ resume_text \in ExperienceTexts
    /\ job_description_text \in ExperienceTexts
    /\ candidate_years = Unset
    /\ required_years = Unset
    /\ experience_score = Unset
    /\ earlier_call = <<>>
    /\ calls = 1
    /\ SkillsUnset
    /\ YearsUnset
    /\ FinalUnset
    /\ SimilarityUnset

\* compute_experience_score(resume_text, job_description_text)
ComputeExperienceScore ==
    /\ pc = "start"
    /\ candidate_years' = _extract_years_of_experience(resume_text)
    /\ required_years' = _extract_years_of_experience(job_description_text)
    /\ experience_score' = ExperienceScoreOf(candidate_years', required_years')
    /\ pc' = "done"
    /\ UNCHANGED <<outerVars, pipelineVars, textVars, skillVars, yearVars, finalVars, similarityVars,
                   earlier_call, calls>>

\* The caller keeps the result and scores another resume against the same
\* job description.
ScoreAnotherResume ==
    /\ pc = "done"
    /\ calls < MaxCalls
    /\ \E r \in ExperienceTexts : resume_text' = r
    /\ earlier_call' = <<[candidate_years |-> candidate_years,
                          experience_score |-> experience_score]>>
    /\ calls' = calls + 1
    /\ pc' = "start"
    /\ UNCHANGED <<outerVars, pipelineVars, job_description_text, skillVars, yearVars, finalVars, similarityVars,
                   candidate_years, required_years, experience_score>>

NextExperience == ComputeExperienceScore \/ ScoreAnotherResume

SpecExperience == InitExperience /\ [][NextExperience]_vars

\* C4: compute_experience_score returns 1.0 when the required years are
\* <= 0 and otherwise min(candidate / required, 1.0): the exact ratio when
\* the candidate has fewer years than required, 1.0 (no bonus) when the
\* candidate has at least as many; the result is never below 0.
ExperienceScoreIsCappedRatio ==
    pc = "done" =>
        /\ required_years[1] <= 0 => experience_score = <<1, 1>>
        /\ required_years[1] > 0 =>
               IF candidate_years[1] * required_years[2]
                      >= required_years[1] * candidate_years[2]
               THEN experience_score = <<1, 1>>
               ELSE experience_score[1] * required_years[1] * candidate_years[2]
                        = candidate_years[1] * required_years[2] * experience_score[2]
        /\ experience_score[1] >= 0 /\ experience_score[2] > 0

\* The resume states 3 years, the job description 5: the score is 3/5; and
\* somewhere a candidate exceeds the requirement.
ExperienceScoreIsCappedRatio_witness ==
    /\ pc = "done"
    /\ resume_text = "Python developer with 3 years of experience"
    /\ job_description_text = "Looking for 5+ years experience with Python"
    /\ experience_score = <<3, 5>>

\* C5: for a fixed requirement > 0 the score never decreases when the
\* candidate's years increase, and it is 1.0 whenever the candidate has at
\* least the required years.
ExperienceScoreMonotoneAndSaturating ==
    (pc = "done" /\ required_years[1] > 0) =>
        /\ (earlier_call # <<>>
              /\ RLeq(earlier_call[1].candidate_years, candidate_years))
               => RLeq(earlier_call[1].experience_score, experience_score)
        /\ RLeq(required_years, candidate_years) => experience_score = <<1, 1>>

\* A second call with strictly more years, both below the requirement, and
\* a strictly larger score.
ExperienceScoreMonotoneAndSaturating_witness ==
    /\ pc = "done"
    /\ required_years[1] > 0
    /\ earlier_call # <<>>
    /\ RLess(earlier_call[1].candidate_years, candidate_years)
    /\ RLess(candidate_years, required_years)
    /\ RLess(earlier_call[1].experience_score, experience_score)

-----------------------------------------------------------------------------
(* Final score.                                                            *)

SEMANTIC_SIMILARITY_WEIGHT == Rat(6, 10)
SKILL_MATCH_WEIGHT == Rat(3, 10)
EXPERIENCE_MATCH_WEIGHT == Rat(1, 10)

\* floor(x) for a rational x >= 0.
Floor(x) == x[1] \div x[2]

\* Mutant: the percentage cut to two decimals instead of rounded.
Truncate2(x) == {Rat(Floor(RMul(x, <<100, 1>>)), 100)}

\* round(x, 2) for x >= 0: the nearest multiple of 0.01. When x lies
\* exactly halfway between two of them the float that stands for it lies a
\* little to one side or the other, and round() follows the float: either
\* neighbour can be the outcome.
Round2(x) ==
    LET h == RMul(x, <<100, 1>>)
        lo == Floor(h)
        twice_rest == 2 * (h[1] - lo * h[2])
    IN IF twice_rest < h[2] THEN {Rat(lo, 100)}
       ELSE IF twice_rest > h[2] THEN {Rat(lo + 1, 100)}
       ELSE {Rat(lo, 100), Rat(lo + 1, 100)}

\* fit_score_percentage: the weighted sum scaled to 0-100, before rounding.
FitScorePercentage(semantic, skills, experience) ==
    LET weighted_semantic == RMul(SEMANTIC_SIMILARITY_WEIGHT, semantic)
        weighted_skills == RMul(SKILL_MATCH_WEIGHT, skills)
        weighted_experience == RMul(EXPERIENCE_MATCH_WEIGHT, experience)
        raw_score == RAdd(RAdd(weighted_semantic, weighted_skills), weighted_experience)
    IN RMul(raw_score, <<100, 1>>)

\* The values compute_final_score can return.
compute_final_score(semantic, skills, experience) ==
    Round2(FitScorePercentage(semantic, skills, experience))

\* The component scores of the final scorer: multiples of 1/ScoreGrid and
\* the ratios m/n with n <= MaxRatioDen.
ScoreGrid == 16
MaxRatioDen == 3

ScoreValues ==
    {Rat(i, ScoreGrid) : i \in 0..ScoreGrid}
        \cup UNION {{Rat(m, n) : m \in 0..n} : n \in 1..MaxRatioDen}

InitFinal ==
    /\ OuterUnset
    /\ pc = "start"
    /\ PipelineUnset
    /\ semantic_similarity \in ScoreValues
    /\ skill_overlap \in ScoreValues
    /\ experience_score \in ScoreValues
    /\ fit_score = Unset
    /\ candidate_years = Unset
    /\ required_years = Unset
    /\ earlier_call = Unset
    /\ calls = Unset
    /\ TextsUnset
    /\ SkillsUnset
    /\ YearsUnset
    /\ SimilarityUnset

\* compute_final_score(semantic_similarity, skill_overlap, experience_score)
ComputeFinalScore ==
    /\ pc = "start"
    /\ fit_score' \in compute_final_score(semantic_similarity, skill_overlap, experience_score)
    /\ pc' = "done"
    /\ UNCHANGED <<outerVars, pipelineVars, textVars, skillVars, yearVars, experienceVars, similarityVars,
                   semantic_similarity, skill_overlap>>

NextFinal == ComputeFinalScore

SpecFinal == InitFinal /\ [][NextFinal]_vars

\* 100 * 100 * (0.6 s + 0.3 k + 0.1 e) as the fraction <<numerator,
\* denominator>>, not reduced: the exact score in hundredths.
ExactHundredths ==
    LET s == semantic_similarity
        k == skill_overlap
        e == experience_score
    IN <<1000 * (6 * s[1] * k[2] * e[2] + 3 * k[1] * s[2] * e[2] + e[1] * s[2] * k[2]),
         s[2] * k[2] * e[2]>>

\* C7: compute_final_score(s, k, e) is 100 * (0.6 s + 0.3 k + 0.1 e) rounded
\* to two decimals: a whole number of hundredths at most half a hundredth
\* away from the exact value; for s, k, e in [0, 1] it lies in [0, 100], it
\* is 100.0 for (1, 1, 1) and 0.0 for (0, 0, 0).
FinalScoreIsRoundedWeightedSum ==
    pc = "done" =>
        LET hundredths == 100 * fit_score[1]
            x == ExactHundredths
        IN /\ hundredths % fit_score[2] = 0
           /\ Abs(2 * (hundredths \div fit_score[2]) * x[2] - 2 * x[1]) <= x[2]
           /\ RLeq(<<0, 1>>, fit_score) /\ RLeq(fit_score, <<100, 1>>)
           /\ (semantic_similarity = <<1, 1>> /\ skill_overlap = <<1, 1>>
                   /\ experience_score = <<1, 1>>) => fit_score = <<100, 1>>
           /\ (semantic_similarity = <<0, 1>> /\ skill_overlap = <<0, 1>>
                   /\ experience_score = <<0, 1>>) => fit_score = <<0, 1>>

\* A score that had to be rounded, and was rounded up.
FinalScoreIsRoundedWeightedSum_witness ==
    /\ pc = "done"
    /\ ExactHundredths[1] % ExactHundredths[2] # 0
    /\ 100 * fit_score[1] * ExactHundredths[2] > ExactHundredths[1] * fit_score[2]
    /\ 2 * ((ExactHundredths[1] % ExactHundredths[2])) # ExactHundredths[2]

-----------------------------------------------------------------------------
(* Semantic coverage: average_max_cosine_similarity.                       *)
(* An array is [shape |-> its numpy shape, data |-> its elements in row     *)
(* order]; the vectors used have whole-number lengths, so every cosine is   *)
(* a rational.                                                              *)

RECURSIVE Product(_)
Product(shape) == IF shape = <<>> THEN 1 ELSE Head(shape) * Product(Tail(shape))

\* ndarray.size and ndarray.ndim
Size(a) == Product(a.shape)
Ndim(a) == Len(a.shape)

\* Mutant: len(a) == 0 instead of a.size == 0.
HasNoRows(a) == a.shape # <<>> /\ a.shape[1] = 0

IsEmptyArray(a) == Size(a) = 0

\* _validate_embeddings: the check that raises, or "valid".
_validate_embeddings(source, target) ==
    IF IsEmptyArray(source) THEN "source_embeddings is empty"
    ELSE IF IsEmptyArray(target) THEN "target_embeddings is empty"
    ELSE IF Ndim(source) # 2 THEN "source_embeddings must be 2D array"
    ELSE IF Ndim(target) # 2 THEN "target_embeddings must be 2D array"
    ELSE IF source.shape[2] # target.shape[2] THEN "Embedding dimension mismatch"
    ELSE "valid"

\* Row i of a two-dimensional array.
Row(a, i) == SubSeq(a.data, (i - 1) * a.shape[2] + 1, i * a.shape[2])

RECURSIVE Dot(_, _)
Dot(u, v) == IF u = <<>> THEN 0 ELSE Head(u) * Head(v) + Dot(Tail(u), Tail(v))

\* The length of a vector whose squared length is a perfect square.
Norm(u) == CHOOSE n \in 0..Dot(u, u) : n * n = Dot(u, u)

\* One entry of sklearn's cosine_similarity: rows are scaled to unit length
\* (a zero row is left as it is) and multiplied.
Cosine(u, v) ==
    IF Norm(u) = 0 \/ Norm(v) = 0 THEN Zero
    ELSE Rat(Dot(u, v), Norm(u) * Norm(v))

cosine_similarity(source, target) ==
    [i \in 1..source.shape[1] |->
        [j \in 1..target.shape[1] |-> Cosine(Row(source, i), Row(target, j))]]

\* Mutant: the first target row's similarity instead of the best.
RowFirst(similarities) == similarities[1]

\* max over one row of the similarity matrix
RECURSIVE RowMax(_)
RowMax(similarities) ==
    IF Len(similarities) = 1 THEN similarities[1]
    ELSE RMax(similarities[1], RowMax(Tail(similarities)))

RECURSIVE SumOf(_)
SumOf(values) == IF values = <<>> THEN Zero ELSE RAdd(Head(values), SumOf(Tail(values)))

\* ndarray.mean()
Mean(values) == RDiv(SumOf(values), <<Len(values), 1>>)

\* Mutant: the mean returned as it is.
NoClip(x) == x

\* np.clip(x, 0.0, 1.0)
Clip(x) == RMax(Zero, RMin(x, One))

MaxSimilarities(source, target) ==
    LET similarity_matrix == cosine_similarity(source, target)
    IN [i \in 1..source.shape[1] |-> RowMax(similarity_matrix[i])]

\* The value average_max_cosine_similarity returns for valid arrays: each
\* intermediate value is computed once and bound, as the code's locals are.
AverageMax(source, target) ==
    CHOOSE clipped \in
        {Clip(average) : average \in
            {Mean(maxima) : maxima \in {MaxSimilarities(source, target)}}} : TRUE

\* The embedding vectors of the model and the arrays made of them.
Vectors == {<<1, 0>>, <<0, 1>>, <<-1, 0>>, <<3, 4>>, <<0, 0>>}
MaxRows == 2

RECURSIVE Flatten(_)
Flatten(rows) == IF rows = <<>> THEN <<>> ELSE Head(rows) \o Flatten(Tail(rows))

Matrices ==
    UNION {{[shape |-> <<n, 2>>, data |-> Flatten(rows)] : rows \in [1..n -> Vectors]}
               : n \in 1..MaxRows}

\* Arrays that are not a matrix of two-dimensional vectors: of another
\* vector dimension, without rows, without columns, one-dimensional,
\* three-dimensional, zero-dimensional.
OtherArrays == {
    [shape |-> <<1, 3>>, data |-> <<0, 0, 1>>],
    [shape |-> <<0, 2>>, data |-> <<>>],
    [shape |-> <<1, 0>>, data |-> <<>>],
    [shape |-> <<2>>, data |-> <<1, 0>>],
    [shape |-> <<1, 1, 2>>, data |-> <<1, 0>>],
    [shape |-> <<>>, data |-> <<1>>]
}

InitSimilarity ==
    /\ OuterUnset
    /\ pc = "start"
    /\ PipelineUnset
    /\ source_embeddings \in Matrices \cup OtherArrays
    /\ target_embeddings \in Matrices \cup OtherArrays
    /\ max_similarities = Unset
    /\ average_similarity = Unset
    /\ semantic_similarity = Unset
    /\ raised = ""
    /\ skill_overlap = Unset
    /\ fit_score = Unset
    /\ TextsUnset
    /\ SkillsUnset
    /\ YearsUnset
    /\ ExperienceUnset

\* average_max_cosine_similarity(source_embeddings, target_embeddings)
AverageMaxCosineSimilarity ==
    /\ pc = "start"
    /\ LET problem == _validate_embeddings(source_embeddings, target_embeddings)
       IN IF problem # "valid"
          THEN /\ raised' = problem
               /\ pc' = "raised"
               /\ UNCHANGED <<max_similarities, average_similarity, semantic_similarity>>
          ELSE /\ max_similarities' = MaxSimilarities(source_embeddings, target_embeddings)
               /\ average_similarity' = Mean(max_similarities')
               /\ semantic_similarity' = Clip(average_similarity')
               /\ pc' = "done"
               /\ UNCHANGED raised
    /\ UNCHANGED <<outerVars, pipelineVars, textVars, skillVars, yearVars, experienceVars, skill_overlap, fit_score,
                   source_embeddings, target_embeddings>>

NextSimilarity == AverageMaxCosineSimilarity

SpecSimilarity == InitSimilarity /\ [][NextSimilarity]_vars

\* C8: for valid arrays average_max_cosine_similarity returns the mean,
\* over the source rows, of each row's largest similarity to any target
\* row, clamped into [0, 1]: a negative mean is returned as 0.
CoverageIsClampedMeanOfRowMaxima ==
    pc = "done" =>
        LET n == source_embeddings.shape[1]
            m == target_embeddings.shape[1]
            sim(i, j) == Cosine(Row(source_embeddings, i), Row(target_embeddings, j))
        IN /\ Len(max_similarities) = n
           /\ \A i \in 1..n :
                  /\ \E j \in 1..m : max_similarities[i] = sim(i, j)
                  /\ \A j \in 1..m : RLeq(sim(i, j), max_similarities[i])
           /\ average_similarity = RDiv(SumOf(max_similarities), <<n, 1>>)
           /\ semantic_similarity =
                  IF RLess(average_similarity, <<0, 1>>) THEN <<0, 1>>
                  ELSE IF RLess(<<1, 1>>, average_similarity) THEN <<1, 1>>
                  ELSE average_similarity
           /\ RLeq(<<0, 1>>, semantic_similarity) /\ RLeq(semantic_similarity, <<1, 1>>)

\* Two source rows and two target rows whose mean of maxima is negative.
CoverageIsClampedMeanOfRowMaxima_witness ==
    /\ pc = "done"
    /\ source_embeddings.shape[1] >= 2
    /\ target_embeddings.shape[1] >= 2
    /\ max_similarities[1] # max_similarities[2]
    /\ RLess(average_similarity, <<0, 1>>)
    /\ semantic_similarity = <<0, 1>>

\* The target array with its rows in the order p[1], p[2], ...
PermuteRows(a, p) ==
    [shape |-> a.shape, data |-> Flatten([i \in 1..a.shape[1] |-> Row(a, p[i])])]

\* C9: the returned coverage is the same for every reordering of the rows
\* of the target array.
CoverageIgnoresTargetRowOrder ==
    pc = "done" =>
        \A reordered \in {PermuteRows(target_embeddings, p) :
                              p \in Permutations(1..target_embeddings.shape[1])} :
            AverageMax(source_embeddings, reordered) = semantic_similarity

\* The best match of the first source row is not the first target row, so
\* a reordering moves it.
CoverageIgnoresTargetRowOrder_witness ==
    /\ pc = "done"
    /\ target_embeddings.shape[1] >= 2
    /\ Row(target_embeddings, 1) # Row(target_embeddings, 2)
    /\ max_similarities[1]
           # Cosine(Row(source_embeddings, 1), Row(target_embeddings, 1))
    /\ RLess(<<0, 1>>, semantic_similarity)

\* An array with no element, with another number of axes than two, or a
\* pair of matrices whose rows differ in length.
HasZeroExtent(a) == \E k \in 1..Len(a.shape) : a.shape[k] = 0
InvalidShapes ==
    \/ HasZeroExtent(source_embeddings)
    \/ HasZeroExtent(target_embeddings)
    \/ Len(source_embeddings.shape) # 2
    \/ Len(target_embeddings.shape) # 2
    \/ source_embeddings.shape[2] # target_embeddings.shape[2]

\* C10: average_max_cosine_similarity raises, and returns no score, exactly
\* when an array has zero elements (a 1x0 array included), an array is not
\* two-dimensional, or the two arrays differ in vector dimension.
RaisesExactlyOnInvalidShapes ==
    pc # "start" =>
        /\ pc = "raised" <=> InvalidShapes
        /\ pc = "raised" => (raised # "" /\ semantic_similarity = Unset)
        /\ pc = "done" => (raised = "" /\ semantic_similarity # Unset)

\* The 1x0 array as source against a valid target.
RaisesExactlyOnInvalidShapes_witness ==
    /\ pc = "raised"
    /\ source_embeddings.shape = <<1, 0>>
    /\ target_embeddings.shape = <<2, 2>>
    /\ raised = "source_embeddings is empty"

-----------------------------------------------------------------------------
(* Sentence splitting: _tokenize_into_sentences.                           *)

\* s[a..b], empty when the range is.
Slice(s, a, b) == IF a > b THEN "" ELSE SubSeq(s, a, b)

\* str.strip(): leading and trailing whitespace removed.
RECURSIVE LStrip(_)
LStrip(s) ==
    IF s # "" /\ IsIn(Whitespace, Head(s)) THEN LStrip(Tail(s)) ELSE s

RECURSIVE RStrip(_)
RStrip(s) ==
    IF s # "" /\ IsIn(Whitespace, CharAt(s, Len(s)))
    THEN RStrip(Slice(s, 1, Len(s) - 1))
    ELSE s

Strip(s) == RStrip(LStrip(s))

\* text.replace("\n", " ")
RECURSIVE ReplaceNewlines(_)
ReplaceNewlines(s) ==
    IF s = "" THEN ""
    ELSE (IF Head(s) = "\n" THEN " " ELSE Head(s)) \o ReplaceNewlines(Tail(s))

\* s.split("."): the pieces between the dots, empty pieces included.
RECURSIVE Split(_)
Split(s) ==
    LET dot == IndexIn(s, ".")
    IN IF dot = 0 THEN <<s>>
       ELSE <<Slice(s, 1, dot - 1)>> \o Split(Slice(s, dot + 1, Len(s)))

\* [s.strip() for s in fragments if s.strip()]
RECURSIVE StrippedNonEmpty(_)
StrippedNonEmpty(fragments) ==
    IF fragments = <<>> THEN <<>>
    ELSE LET stripped == Strip(Head(fragments))
         IN (IF stripped # "" THEN <<stripped>> ELSE <<>>)
                \o StrippedNonEmpty(Tail(fragments))

\* Mutant: no sentence at all for a blank text.
NoSentences == <<>>

\* pipeline.py:229-230: return [""]
BlankTextBatch == <<"">>

_tokenize_into_sentences(t) ==
    IF t = "" \/ Strip(t) = "" THEN BlankTextBatch
    ELSE LET found == StrippedNonEmpty(Split(ReplaceNewlines(t)))
         IN IF found # <<>> THEN found ELSE <<t>>

\* The texts of the sentence splitter.
SentenceWords == {"Python", " dev", ".", " ", "\n", "\t"}
MaxSentenceWords == 4

InitSentences ==
    /\ OuterUnset
    /\ pc = "start"
    /\ text \in Phrases(SentenceWords, MaxSentenceWords)
    /\ year_mentions = Unset
    /\ max_years = Unset
    /\ sentences = Unset
    /\ ExplanationUnset
    /\ EvaluateUnset
    /\ ServiceUnset
    /\ TextsUnset
    /\ SkillsUnset
    /\ ExperienceUnset
    /\ FinalUnset
    /\ SimilarityUnset

\* _tokenize_into_sentences(text)
TokenizeIntoSentences ==
    /\ pc = "start"
    /\ sentences' = _tokenize_into_sentences(text)
    /\ pc' = "done"
    /\ UNCHANGED <<outerVars, explanationVars, evaluateVars, serviceVars, textVars, skillVars, yearVars, experienceVars, finalVars, similarityVars>>

NextSentences == TokenizeIntoSentences

SpecSentences == InitSentences /\ [][NextSentences]_vars

\* Splitting on "." leaves no fragment with a character that is not
\* whitespace.
NoFragment(t) == \A i \in 1..Len(t) : IsIn(Whitespace, CharAt(t, i)) \/ CharAt(t, i) = "."

\* C11: when the text is empty or whitespace-only, or splitting on "."
\* leaves zero non-empty fragments, the splitter returns a one-element batch
\* holding the original text with leading and trailing whitespace stripped.
DegenerateBatchIsStrippedText ==
    (pc = "done" /\ NoFragment(text)) => sentences = <<Strip(text)>>

\* The sentences occur in t one after another, without overlap.
RECURSIVE OccurInOrder(_, _)
OccurInOrder(batch, t) ==
    \/ batch = <<>>
    \/ \E i \in 1..(Len(t) - Len(Head(batch)) + 1) :
           /\ SubSeq(t, i, i + Len(Head(batch)) - 1) = Head(batch)
           /\ OccurInOrder(Tail(batch), Slice(t, i + Len(Head(batch)), Len(t)))

\* C12: for a text that is not empty or whitespace-only every element of
\* the batch is a non-empty string without leading or trailing whitespace
\* and the elements follow the order of their fragments in the text; for an
\* empty or whitespace-only text the batch is exactly [""].
BatchIsTrimmedNonEmptyInOrder ==
    pc = "done" =>
        IF IsBlank(text) THEN sentences = <<"">>
        ELSE /\ \A k \in 1..Len(sentences) :
                    /\ sentences[k] # ""
                    /\ Strip(sentences[k]) = sentences[k]
             /\ OccurInOrder(sentences, ReplaceNewlines(text))

-----------------------------------------------------------------------------
(* The explanation: _generate_explanation.                                 *)

\* f"{x:.2f}" for 0 <= x: x rounded to hundredths and written with two
\* decimals. On an exact half hundredth the float's side decides, as in
\* Round2, so this is the set of the strings that can come out.
Format2(x) ==
    {LET hundredths == r[1] * (100 \div r[2])
     IN NumStr(hundredths \div 100) \o "."
            \o CharAt(Digits, ((hundredths \div 10) % 10) + 1)
            \o CharAt(Digits, (hundredths % 10) + 1)
     : r \in Round2(x)}

\* ", ".join(items)
RECURSIVE Join(_)
Join(items) ==
    IF items = <<>> THEN ""
    ELSE IF Len(items) = 1 THEN items[1]
    ELSE items[1] \o ", " \o Join(Tail(items))

\* Mutant: the plural only for more than one skill.
PluralAboveOne(num_matched) == IF num_matched > 1 THEN "s" ELSE ""

\* 's' if num_matched != 1 else ''
PluralSuffix(num_matched) == IF num_matched # 1 THEN "s" ELSE ""

\* ", ".join(missing_skills) if missing_skills else "None"
MissingSkillsText(missing) == IF missing # <<>> THEN Join(missing) ELSE "None"

\* The strings _generate_explanation can return.
_generate_explanation(semantic, matched, missing, experience) ==
    LET num_matched == Len(matched)
        missing_skills_text == MissingSkillsText(missing)
    IN {"Semantic match score is " \o shown_semantic \o ". "
            \o "Matched " \o NumStr(num_matched) \o " required skill"
            \o PluralSuffix(num_matched) \o ". "
            \o "Experience alignment score is " \o shown_experience \o ". "
            \o "Missing skills include: " \o missing_skills_text \o "."
        : shown_semantic \in Format2(semantic), shown_experience \in Format2(experience)}

\* The arguments of the explanation generator: lists of distinct skills in
\* any order and a few scores, 1/8 and 3/8 being exact half hundredths.
ListedSkills == {"python", "docker", "kubernetes", "c++"}
MaxListed == 2
ExplainedScores == {Zero, Rat(1, 8), Rat(3, 8), Rat(41, 50), One}

SkillLists ==
    UNION {{l \in [1..n -> ListedSkills] : \A i, j \in 1..n : i # j => l[i] # l[j]}
               : n \in 0..MaxListed}

InitExplanation ==
    /\ OuterUnset
    /\ pc = "start"
    /\ semantic_similarity \in ExplainedScores
    /\ experience_score \in {Zero, Rat(3, 4), One}
    /\ matched_skills \in SkillLists
    /\ missing_skills \in SkillLists
    /\ explanation = Unset
    /\ resume_skills = Unset
    /\ jd_required_skills = Unset
    /\ overlap_score = Unset
    /\ candidate_years = Unset
    /\ required_years = Unset
    /\ earlier_call = Unset
    /\ calls = Unset
    /\ skill_overlap = Unset
    /\ fit_score = Unset
    /\ SentencesUnset
    /\ EvaluateUnset
    /\ ServiceUnset
    /\ TextsUnset
    /\ YearsUnset
    /\ SimilarityUnset

\* _generate_explanation(semantic_similarity, matched_skills, missing_skills,
\* experience_score)
GenerateExplanation ==
    /\ pc = "start"
    /\ explanation' \in _generate_explanation(semantic_similarity, matched_skills,
                                              missing_skills, experience_score)
    /\ pc' = "done"
    /\ UNCHANGED <<outerVars, sentenceVars, evaluateVars, serviceVars, textVars, skillVars, yearVars,
                   experienceVars, finalVars, similarityVars>>

NextExplanation == GenerateExplanation

SpecExplanation == InitExplanation /\ [][NextExplanation]_vars

\* The part of s after the first occurrence of marker ("" when there is none).
After(s, marker) ==
    IF Contains(s, marker)
    THEN LET i == CHOOSE k \in 1..Len(s) :
                      /\ k + Len(marker) - 1 <= Len(s)
                      /\ SubSeq(s, k, k + Len(marker) - 1) = marker
                      /\ \A j \in 1..(k - 1) : SubSeq(s, j, j + Len(marker) - 1) # marker
         IN Slice(s, i + Len(marker), Len(s))
    ELSE ""

\* The part of s before the first occurrence of marker.
Before(s, marker) ==
    Slice(s, 1, Len(s) - Len(After(s, marker)) - Len(marker))

\* C19: the explanation reports len(matched_skills) as the number of matched
\* skills, with the noun "skill" exactly when that number is 1 and "skills"
\* otherwise (0 included), and lists the missing skills comma-joined in their
\* given order, or the word "None" exactly when missing_skills is empty.
ExplanationReportsCountNounAndMissing ==
    pc = "done" =>
        LET matched_sentence == Before(After(explanation, "Matched "), ". ")
            listed == Before(After(explanation, "Missing skills include: "), ".")
            n == Len(matched_skills)
        IN /\ Contains(explanation, "Matched ")
           /\ Contains(explanation, "Missing skills include: ")
           /\ matched_sentence =
                  NumStr(n) \o " required " \o (IF n = 1 THEN "skill" ELSE "skills")
           /\ listed = "None" <=> missing_skills = <<>>
           /\ missing_skills # <<>> =>
                  /\ Len(missing_skills) = 1 => listed = missing_skills[1]
                  /\ Len(missing_skills) = 2 =>
                         listed = missing_skills[1] \o ", " \o missing_skills[2]

\* No matched skill (the plural of zero) and two missing skills listed in
\* an order that is not the sorted one.
ExplanationReportsCountNounAndMissing_witness ==
    /\ pc = "done"
    /\ matched_skills = <<>>
    /\ missing_skills = <<"python", "docker">>
    /\ Contains(explanation, "Matched 0 required skills. ")
    /\ Contains(explanation, "Missing skills include: python, docker.")

-----------------------------------------------------------------------------
(* The pipeline: ResumeJobFitPipeline.evaluate.                            *)

\* round(x, 3) for x >= 0, with either neighbour on an exact half
\* thousandth, as in Round2.
Round3(x) ==
    LET h == RMul(x, <<1000, 1>>)
        lo == Floor(h)
        twice_rest == 2 * (h[1] - lo * h[2])
    IN IF twice_rest < h[2] THEN {Rat(lo, 1000)}
       ELSE IF twice_rest > h[2] THEN {Rat(lo + 1, 1000)}
       ELSE {Rat(lo, 1000), Rat(lo + 1, 1000)}

\* The tuple match_skills returns.
match_skills(resume, jd) ==
    LET rs == extract_skills(resume)
        js == extract_skills(jd)
    IN IF js = {} THEN <<<<>>, <<>>, NoRequirementScore>>
       ELSE <<Sorted(MatchedOf(rs, js)), Sorted(MissingOf(rs, js)),
              OverlapOf(MatchedOf(rs, js), js)>>

\* The sentence transformer is outside the repository. The first model
\* answers as EmbeddingModel.encode documents, one row per text; the other
\* two stand for a transformer whose answer _validate_embeddings rejects (no
\* vector dimension, a one-dimensional array), so that the failure path of
\* evaluate is exercised.
EmbeddingModels == {"all-MiniLM-L6-v2", "no-dimensions", "one-dimensional"}

\* The vector of one sentence: a fixed table on the sentence's words.
EmbeddingOf(sentence) ==
    IF Contains(Lower(sentence), "python") THEN <<1, 0>>
    ELSE IF Contains(Lower(sentence), "java") THEN <<0, 1>>
    ELSE IF Contains(Lower(sentence), "years") THEN <<3, 4>>
    ELSE <<-1, 0>>

\* EmbeddingModel.encode(texts)
encode(model, texts) ==
    LET rows == [i \in 1..Len(texts) |-> EmbeddingOf(texts[i])]
    IN IF model = "all-MiniLM-L6-v2"
       THEN [shape |-> <<Len(texts), 2>>, data |-> Flatten(rows)]
       ELSE IF model = "no-dimensions"
       THEN [shape |-> <<Len(texts), 0>>, data |-> <<>>]
       ELSE [shape |-> <<2 * Len(texts)>>, data |-> Flatten(rows)]

\* Mutant: the resume's embeddings as source, the job description's as target.
CoverageArgumentsSwapped(jd, resume) == [source |-> resume, target |-> jd]

\* The keyword arguments of the average_max_cosine_similarity call.
CoverageArguments(jd, resume) == [source |-> jd, target |-> resume]

\* Mutant: the error caught and raised anew under another message.
Wrapped(error) == "Evaluation failed: " \o error

\* evaluate has no handler around the call: the error leaves as it came.
Reraised(error) == error

AllSteps == <<"tokenize", "encode", "coverage", "match_skills", "experience",
              "final_score", "explanation", "return">>

\* The texts evaluate is given.
EvaluateWords == {"Python. ", "Java, SQL ", "5 years. ", "3.5 years", ". "}
MaxEvaluateResumeWords == 1
MaxEvaluateJdWords == 2

InitEvaluate ==
    /\ OuterUnset
    /\ pc = "start"
    /\ resume_text \in Phrases(EvaluateWords, MaxEvaluateResumeWords)
    /\ job_description_text \in Phrases(EvaluateWords, MaxEvaluateJdWords)
    /\ embedding_model \in EmbeddingModels
    /\ resume_sentences = Unset
    /\ jd_sentences = Unset
    /\ resume_embeddings = Unset
    /\ jd_embeddings = Unset
    /\ steps = <<>>
    /\ result = Unset
    /\ raised = ""
    /\ source_embeddings = Unset
    /\ target_embeddings = Unset
    /\ max_similarities = Unset
    /\ average_similarity = Unset
    /\ SentencesUnset
    /\ ExplanationUnset
    /\ ServiceUnset
    /\ SkillsUnset
    /\ YearsUnset
    /\ ExperienceUnset
    /\ FinalUnset

\* ResumeJobFitPipeline.evaluate(resume_text, job_description_text)
Evaluate ==
    /\ pc = "start"
    /\ resume_sentences' = _tokenize_into_sentences(resume_text)
    /\ jd_sentences' = _tokenize_into_sentences(job_description_text)
    /\ resume_embeddings' = encode(embedding_model, resume_sentences')
    /\ jd_embeddings' = encode(embedding_model, jd_sentences')
    /\ LET arguments == CoverageArguments(jd_embeddings', resume_embeddings')
           problem == _validate_embeddings(arguments.source, arguments.target)
       IN /\ source_embeddings' = arguments.source
          /\ target_embeddings' = arguments.target
          /\ IF problem # "valid"
             THEN /\ raised' = Reraised(problem)
                  /\ pc' = "raised"
                  /\ steps' = SubSeq(AllSteps, 1, 3)
                  /\ UNCHANGED <<semantic_similarity, matched_skills, missing_skills,
                                 overlap_score, experience_score, fit_score, explanation,
                                 result>>
             ELSE LET skills == match_skills(resume_text, job_description_text)
                  IN /\ semantic_similarity' = AverageMax(arguments.source, arguments.target)
                     /\ matched_skills' = skills[1]
                     /\ missing_skills' = skills[2]
                     /\ overlap_score' = skills[3]
                     /\ experience_score' =
                            compute_experience_score(resume_text, job_description_text)
                     /\ fit_score' \in compute_final_score(semantic_similarity',
                                                           overlap_score', experience_score')
                     /\ explanation' \in _generate_explanation(semantic_similarity',
                                             matched_skills', missing_skills', experience_score')
                     /\ \E shown_semantic \in Round3(semantic_similarity'),
                           shown_experience \in Round3(experience_score') :
                            result' = [fit_score |-> fit_score',
                                       semantic_similarity_score |-> shown_semantic,
                                       matched_skills |-> matched_skills',
                                       missing_skills |-> missing_skills',
                                       experience_match_score |-> shown_experience,
                                       explanation |-> explanation']
                     /\ steps' = AllSteps
                     /\ pc' = "done"
                     /\ UNCHANGED raised
    /\ UNCHANGED <<outerVars, sentenceVars, serviceVars, textVars, embedding_model, resume_skills,
                   jd_required_skills,
                   yearVars, candidate_years, required_years, earlier_call, calls,
                   skill_overlap, max_similarities, average_similarity>>

NextEvaluate == Evaluate

SpecEvaluate == InitEvaluate /\ [][NextEvaluate]_vars

\* C28: the sentence splitter returns at least one element for every text, so
\* with an embedder that returns one row of fixed dimension per string
\* evaluate never fails with the coverage scorer's validation error, whatever
\* the two texts are, empty ones included.
BatchesNeverEmptySoValidationPasses ==
    pc # "start" =>
        /\ Len(resume_sentences) >= 1
        /\ Len(jd_sentences) >= 1
        /\ embedding_model = "all-MiniLM-L6-v2" =>
               /\ pc = "done"
               /\ raised = ""
               /\ resume_embeddings.shape = <<Len(resume_sentences), 2>>
               /\ jd_embeddings.shape = <<Len(jd_sentences), 2>>

\* evaluate has returned for an empty resume and a job description without a
\* sentence in it, each split into a batch of one element.
BatchesNeverEmptySoValidationPasses_witness ==
    /\ pc = "done"
    /\ resume_text = ""
    /\ job_description_text = ". "
    /\ resume_sentences = <<"">>
    /\ jd_sentences = <<". ">>
    /\ embedding_model = "all-MiniLM-L6-v2"

\* C13: evaluate computes the coverage with the job description's sentence
\* embeddings as source and the resume's as target, takes matched, missing
\* and overlap from the substring matcher and the experience score from the
\* raw texts, and returns as fit_score the final score of those three values.
EvaluateCombinesTheThreeSignals ==
    pc = "done" =>
        /\ source_embeddings = encode(embedding_model,
                                      _tokenize_into_sentences(job_description_text))
        /\ target_embeddings = encode(embedding_model,
                                      _tokenize_into_sentences(resume_text))
        /\ semantic_similarity = AverageMax(source_embeddings, target_embeddings)
        /\ <<matched_skills, missing_skills, overlap_score>>
               = match_skills(resume_text, job_description_text)
        /\ result.matched_skills = matched_skills
        /\ result.missing_skills = missing_skills
        /\ experience_score = compute_experience_score(resume_text, job_description_text)
        /\ result.fit_score
               \in compute_final_score(semantic_similarity, overlap_score, experience_score)

\* The coverage differs from the coverage of the swapped arguments, and the
\* experience score of the raw texts ("3.5 years") differs from the one the
\* split sentences ("3", "5 years") would give.
EvaluateCombinesTheThreeSignals_witness ==
    /\ pc = "done"
    /\ Len(jd_sentences) = 2
    /\ semantic_similarity # AverageMax(target_embeddings, source_embeddings)
    /\ matched_skills # <<>>
    /\ missing_skills # <<>>
    /\ RLess(Zero, experience_score) /\ RLess(experience_score, One)
    /\ experience_score
           # compute_experience_score(Join(resume_sentences), Join(jd_sentences))

\* C14: when the coverage scorer raises its validation error, evaluate ends
\* with that same error: skill matching, experience scoring, final scoring
\* and the explanation do not run, and no result record is returned.
EvaluateFailsFast ==
    pc # "start" =>
        LET problem == _validate_embeddings(jd_embeddings, resume_embeddings)
        IN problem # "valid" =>
               /\ pc = "raised"
               /\ raised = problem
               /\ steps = <<"tokenize", "encode", "coverage">>
               /\ result = Unset
               /\ matched_skills = Unset
               /\ missing_skills = Unset
               /\ overlap_score = Unset
               /\ experience_score = Unset
               /\ fit_score = Unset
               /\ explanation = Unset

\* The embeddings have no vector dimension: evaluate ends with the
\* scorer's "empty" error although the texts state skills and years.
EvaluateFailsFast_witness ==
    /\ pc = "raised"
    /\ embedding_model = "no-dimensions"
    /\ raised = "source_embeddings is empty"
    /\ extract_skills(job_description_text) # {}
    /\ resume_text # ""

\* l[1] < l[2] < ... in Python's string order.
StrictlyAscending(l) == \A i, j \in 1..Len(l) : i < j => StrLess(l[i], l[j])

\* C15: every returned record has fit_score in [0, 100],
\* semantic_similarity_score and experience_match_score in [0, 1], and
\* matched_skills and missing_skills sorted ascending, free of duplicates,
\* disjoint and made of vocabulary skills only.
ResultRecordIsWellFormed ==
    pc = "done" =>
        /\ RLeq(Zero, result.fit_score) /\ RLeq(result.fit_score, <<100, 1>>)
        /\ RLeq(Zero, result.semantic_similarity_score)
        /\ RLeq(result.semantic_similarity_score, One)
        /\ RLeq(Zero, result.experience_match_score)
        /\ RLeq(result.experience_match_score, One)
        /\ StrictlyAscending(result.matched_skills)
        /\ StrictlyAscending(result.missing_skills)
        /\ Range(result.matched_skills) \cap Range(result.missing_skills) = {}
        /\ Range(result.matched_skills) \subseteq RECOGNIZED_SKILLS
        /\ Range(result.missing_skills) \subseteq RECOGNIZED_SKILLS

\* A record with two matched skills, a missing skill and a fit score and a
\* semantic score strictly inside their ranges.
ResultRecordIsWellFormed_witness ==
    /\ pc = "done"
    /\ Len(result.matched_skills) >= 2
    /\ Len(result.missing_skills) >= 1
    /\ RLess(Zero, result.fit_score) /\ RLess(result.fit_score, <<100, 1>>)
    /\ RLess(Zero, result.semantic_similarity_score)
    /\ RLess(result.semantic_similarity_score, One)

-----------------------------------------------------------------------------
(* The service: MLService.evaluate_fit over analyze_resume_job_fit.        *)

\* What one evaluate call can end with: the error it raises, or the
\* dictionary it returns (one outcome for each way the roundings can fall).
evaluate(model, resume, jd) ==
    UNION {
        IF _validate_embeddings(arguments.source, arguments.target) # "valid"
        THEN {[raised |-> Reraised(_validate_embeddings(arguments.source, arguments.target)),
               result |-> Unset]}
        ELSE UNION {
            {[raised |-> "",
              result |-> [fit_score |-> fit,
                          semantic_similarity_score |-> shown_semantic,
                          matched_skills |-> skills[1],
                          missing_skills |-> skills[2],
                          experience_match_score |-> shown_experience,
                          explanation |-> explained]]
             : fit \in compute_final_score(semantic, skills[3], experience),
               explained \in _generate_explanation(semantic, skills[1], skills[2], experience),
               shown_semantic \in Round3(semantic),
               shown_experience \in Round3(experience)}
            : semantic \in {AverageMax(arguments.source, arguments.target)},
              skills \in {match_skills(resume, jd)},
              experience \in {compute_experience_score(resume, jd)}}
        : arguments \in {CoverageArguments(encode(model, _tokenize_into_sentences(jd)),
                                           encode(model, _tokenize_into_sentences(resume)))}}

\* not job_description or not job_description.strip()
IsMissing(job_description) == job_description = "" \/ IsBlank(job_description)

\* Mutant: only the empty string counts as missing.
IsEmptyString(job_description) == job_description = ""

\* The check evaluate_fit makes before it calls the pipeline.
JobDescriptionRejected(job_description) == IsMissing(job_description)

\* The texts the service is called with.
ServiceResumes == {"", "Python. ", "3.5 years"}
ServiceJobDescriptions == {"", " \n", "\t", "Python. ", "Java, SQL 5 years. "}
MaxServiceCalls == 2

InitService ==
    /\ OuterUnset
    /\ pc = "start"
    /\ calls = 1
    /\ resume_text \in ServiceResumes
    /\ job_description_text \in ServiceJobDescriptions
    /\ embedding_model \in EmbeddingModels
    /\ _pipeline_initialized = FALSE
    /\ pipelines_constructed = 0
    /\ pipeline_calls = 0
    /\ result = Unset
    /\ raised = ""
    /\ requests = Unset
    /\ resume_sentences = Unset
    /\ jd_sentences = Unset
    /\ resume_embeddings = Unset
    /\ jd_embeddings = Unset
    /\ steps = Unset
    /\ candidate_years = Unset
    /\ required_years = Unset
    /\ experience_score = Unset
    /\ earlier_call = Unset
    /\ source_embeddings = Unset
    /\ target_embeddings = Unset
    /\ max_similarities = Unset
    /\ average_similarity = Unset
    /\ SentencesUnset
    /\ ExplanationUnset
    /\ SkillsUnset
    /\ YearsUnset
    /\ FinalUnset

\* Mutant: a failing call resets the flag.
FlagCleared(flag) == FALSE

\* ml_service.py:74-81: the raise of the validation, or an exception of
\* analyze_resume_job_fit, leaves evaluate_fit before line 84 assigns the flag.
FlagAfterRaise(flag) == flag

\* MLService.evaluate_fit(resume_text, job_description): the validation,
\* then analyze_resume_job_fit, which builds a ResumeJobFitPipeline and
\* calls its evaluate, then the readiness flag.
EvaluateFit ==
    /\ pc = "start"
    /\ IF JobDescriptionRejected(job_description_text)
       THEN /\ raised' = "EmptyJobDescriptionError"
            /\ pc' = "raised"
            /\ _pipeline_initialized' = FlagAfterRaise(_pipeline_initialized)
            /\ UNCHANGED <<pipelines_constructed, pipeline_calls, result>>
       ELSE /\ pipeline_calls' = pipeline_calls + 1
            /\ pipelines_constructed' = pipelines_constructed + 1
            /\ \E outcome \in evaluate(embedding_model, resume_text, job_description_text) :
                   IF outcome.raised # ""
                   THEN /\ raised' = outcome.raised
                        /\ pc' = "raised"
                        /\ _pipeline_initialized' = FlagAfterRaise(_pipeline_initialized)
                        /\ UNCHANGED result
                   ELSE /\ result' = outcome.result
                        /\ _pipeline_initialized' = TRUE
                        /\ pc' = "done"
                        /\ UNCHANGED raised
    /\ UNCHANGED <<outerVars, sentenceVars, explanationVars, textVars, skillVars, yearVars,
                   experienceVars, finalVars, source_embeddings, target_embeddings,
                   max_similarities, average_similarity, embedding_model, resume_sentences,
                   jd_sentences, resume_embeddings, jd_embeddings, steps, requests>>

\* The next request reaches the endpoint after the previous one has ended;
\* its call builds its own pipeline and embedding model (pipeline.py:309).
AnotherCall ==
    /\ pc \in {"done", "raised"}
    /\ calls < MaxServiceCalls
    /\ calls' = calls + 1
    /\ resume_text' \in ServiceResumes
    /\ job_description_text' \in ServiceJobDescriptions
    /\ embedding_model' \in EmbeddingModels
    /\ pipeline_calls' = 0
    /\ result' = Unset
    /\ raised' = ""
    /\ pc' = "start"
    /\ UNCHANGED <<outerVars, sentenceVars, explanationVars, skillVars, yearVars, candidate_years,
                   required_years, experience_score, earlier_call, finalVars,
                   source_embeddings, target_embeddings, max_similarities,
                   average_similarity, resume_sentences, jd_sentences,
                   resume_embeddings, jd_embeddings, steps, _pipeline_initialized,
                   pipelines_constructed, requests>>

NextService == EvaluateFit \/ AnotherCall

SpecService == InitService /\ [][NextService]_vars

\* C16: evaluate_fit with an empty or whitespace-only job description raises
\* EmptyJobDescriptionError without invoking analyze_resume_job_fit; for
\* every other job description the pipeline is invoked exactly once.
EmptyJobDescriptionNeverReachesPipeline ==
    pc \in {"done", "raised"} =>
        IF Strip(job_description_text) = ""
        THEN /\ pc = "raised"
             /\ raised = "EmptyJobDescriptionError"
             /\ pipeline_calls = 0
             /\ result = Unset
        ELSE /\ pipeline_calls = 1
             /\ raised # "EmptyJobDescriptionError"

\* A whitespace-only job description rejected on the second call, after a
\* first call that went through the pipeline.
EmptyJobDescriptionNeverReachesPipeline_witness ==
    /\ pc = "raised"
    /\ calls = 2
    /\ job_description_text = " \n"
    /\ resume_text # ""
    /\ raised = "EmptyJobDescriptionError"
    /\ pipelines_constructed = 1

\* C17: across any sequence of evaluate_fit calls in one process the pipeline
\* and its embedding model are initialized once; every later call reuses
\* that instance instead of constructing a new one.
PipelineIsInitializedOnce ==
    embedding_model = "all-MiniLM-L6-v2" => pipelines_constructed <= 1

\* ml_service.py:88-95, returned by health_check (main.py:78-88)
is_ready == _pipeline_initialized

\* C24: readiness is a one-way flag: is_ready() is False from construction
\* until the first evaluate_fit call that returns, True after it, and never
\* False again; a call that raises leaves it as it was.
ReadinessIsOneWay ==
    /\ (pc = "start" /\ calls = 1) => ~is_ready
    /\ [][/\ is_ready => is_ready'
          /\ (pc = "start" /\ pc' = "done") => is_ready'
          /\ (pc = "start" /\ pc' = "raised") => (is_ready' = is_ready)
          /\ (~is_ready /\ is_ready') => (pc = "start" /\ pc' = "done")]_vars

\* A second call in which the pipeline raised, after a first call that
\* returned: the service is still ready.
ReadinessIsOneWay_witness ==
    /\ calls = 2
    /\ pc = "raised"
    /\ raised # "EmptyJobDescriptionError"
    /\ pipeline_calls = 1
    /\ is_ready

-----------------------------------------------------------------------------
(* Concurrent evaluate_fit calls on the one MLService of the process.      *)

\* The threads that call evaluate_fit at the same time.
Callers == {"a", "b"}

ConcurrentResumes == {"Python. ", "3.5 years"}
ConcurrentJobDescriptions == {"", "Python. ", "Java, SQL 5 years. "}

\* Mutant: the texts kept on the shared object, where caller "a"'s are read
\* by every call.
SharedTexts(frames, caller) == <<frames["a"].resume_text, frames["a"].job_description>>

\* The arguments of a call are its own locals.
OwnTexts(frames, caller) == <<frames[caller].resume_text, frames[caller].job_description>>

InitConcurrent ==
    /\ OuterUnset
    /\ pc = "serving"
    /\ requests \in [Callers -> [pc : {"validate"},
                                 resume_text : ConcurrentResumes,
                                 job_description : ConcurrentJobDescriptions,
                                 pipeline : {0},
                                 result : {Unset},
                                 raised : {""}]]
    /\ embedding_model \in EmbeddingModels
    /\ _pipeline_initialized = FALSE
    /\ pipelines_constructed = 0
    /\ pipeline_calls = Unset
    /\ resume_sentences = Unset
    /\ jd_sentences = Unset
    /\ resume_embeddings = Unset
    /\ jd_embeddings = Unset
    /\ steps = Unset
    /\ result = Unset
    /\ SentencesUnset
    /\ ExplanationUnset
    /\ TextsUnset
    /\ SkillsUnset
    /\ YearsUnset
    /\ ExperienceUnset
    /\ FinalUnset
    /\ SimilarityUnset

\* What every step of a call leaves alone.
OutsideTheCalls ==
    <<pc, outerVars, sentenceVars, explanationVars, evaluateVars, pipeline_calls, textVars,
      skillVars,
      yearVars, experienceVars, finalVars, similarityVars>>

\* ml_service.py:74-75
ValidateJobDescription(caller) ==
    /\ requests[caller].pc = "validate"
    /\ requests' = [requests EXCEPT ![caller] =
           IF JobDescriptionRejected(@.job_description)
           THEN [@ EXCEPT !.pc = "raised", !.raised = "EmptyJobDescriptionError"]
           ELSE [@ EXCEPT !.pc = "construct"]]
    /\ UNCHANGED <<OutsideTheCalls, _pipeline_initialized, pipelines_constructed>>

\* pipeline.py:309: pipeline = ResumeJobFitPipeline()
ConstructPipeline(caller) ==
    /\ requests[caller].pc = "construct"
    /\ pipelines_constructed' = pipelines_constructed + 1
    /\ requests' = [requests EXCEPT ![caller] =
           [@ EXCEPT !.pc = "evaluate", !.pipeline = pipelines_constructed']]
    /\ UNCHANGED <<OutsideTheCalls, _pipeline_initialized>>

\* pipeline.py:310: return pipeline.evaluate(resume_text, job_description_text)
RunEvaluate(caller) ==
    /\ requests[caller].pc = "evaluate"
    /\ LET texts == OwnTexts(requests, caller)
       IN \E outcome \in evaluate(embedding_model, texts[1], texts[2]) :
              requests' = [requests EXCEPT ![caller] =
                  IF outcome.raised # ""
                  THEN [@ EXCEPT !.pc = "raised", !.raised = outcome.raised]
                  ELSE [@ EXCEPT !.pc = "mark", !.result = outcome.result]]
    /\ UNCHANGED <<OutsideTheCalls, _pipeline_initialized, pipelines_constructed>>

\* ml_service.py:84: self._pipeline_initialized = True
MarkInitialized(caller) ==
    /\ requests[caller].pc = "mark"
    /\ _pipeline_initialized' = TRUE
    /\ requests' = [requests EXCEPT ![caller] = [@ EXCEPT !.pc = "return"]]
    /\ UNCHANGED <<OutsideTheCalls, pipelines_constructed>>

\* ml_service.py:86: return result
ReturnResult(caller) ==
    /\ requests[caller].pc = "return"
    /\ requests' = [requests EXCEPT ![caller] = [@ EXCEPT !.pc = "returned"]]
    /\ UNCHANGED <<OutsideTheCalls, _pipeline_initialized, pipelines_constructed>>

NextConcurrent ==
    \E caller \in Callers :
        \/ ValidateJobDescription(caller)
        \/ ConstructPipeline(caller)
        \/ RunEvaluate(caller)
        \/ MarkInitialized(caller)
        \/ ReturnResult(caller)

SpecConcurrent == InitConcurrent /\ [][NextConcurrent]_vars

\* What evaluate_fit ends with when it runs alone on the two texts.
AloneOutcomes(model, resume, job_description) ==
    IF Strip(job_description) = ""
    THEN {[raised |-> "EmptyJobDescriptionError", result |-> Unset]}
    ELSE evaluate(model, resume, job_description)

\* C18: under every interleaving of concurrent calls each call ends exactly
\* as it would when run alone on its own two texts; the readiness flag, the
\* only shared variable that is written, has no part in any result.
ConcurrentCallsAreIndependent ==
    \A caller \in Callers :
        requests[caller].pc \in {"return", "returned", "raised"} =>
            [raised |-> requests[caller].raised, result |-> requests[caller].result]
                \in AloneOutcomes(embedding_model, requests[caller].resume_text,
                                  requests[caller].job_description)

\* Caller "b" built its pipeline first and is still before the flag, caller
\* "a" built its own later and has already returned another result, with the
\* flag set in between.
ConcurrentCallsAreIndependent_witness ==
    /\ requests["b"].pipeline = 1
    /\ requests["b"].pc = "mark"
    /\ requests["a"].pipeline = 2
    /\ requests["a"].pc = "returned"
    /\ _pipeline_initialized = TRUE
    /\ requests["a"].result # requests["b"].result
    /\ requests["a"].job_description # requests["b"].job_description

-----------------------------------------------------------------------------
(* Detection of the vocabulary: extract_skills on texts that name a skill. *)

\* str.upper() on one character.
UpperChar(c) == IF IsIn(LowerCase, c) THEN CharAt(UpperCase, IndexIn(LowerCase, c)) ELSE c

RECURSIVE Upper(_)
Upper(s) == IF s = "" THEN "" ELSE UpperChar(Head(s)) \o Upper(Tail(s))

\* Every vocabulary skill, as listed and in capitals, alone and inside a
\* sentence.
MentionPrefixes == {"", "Expert in "}
MentionSuffixes == {"", ", 2 years."}

SkillMentions ==
    {before \o written \o after :
        before \in MentionPrefixes,
        written \in {skill : skill \in RECOGNIZED_SKILLS}
                        \cup {Upper(skill) : skill \in RECOGNIZED_SKILLS},
        after \in MentionSuffixes}

InitExtract ==
    /\ OuterUnset
    /\ pc = "start"
    /\ resume_text \in SkillMentions
    /\ job_description_text = Unset
    /\ SkillsUnset
    /\ PipelineUnset
    /\ YearsUnset
    /\ ExperienceUnset
    /\ FinalUnset
    /\ SimilarityUnset

\* extract_skills(resume_text)
ExtractSkills ==
    /\ pc = "start"
    /\ resume_skills' = extract_skills(resume_text)
    /\ pc' = "done"
    /\ UNCHANGED <<outerVars, pipelineVars, textVars, jd_required_skills, matched_skills, missing_skills,
                   overlap_score, yearVars, experienceVars, finalVars, similarityVars>>

NextExtract == ExtractSkills

SpecExtract == InitExtract /\ [][NextExtract]_vars

\* C20: every skill of RECOGNIZED_SKILLS ("node.js", "ci/cd" and
\* "scikit-learn" included) is detected in every text that contains it
\* verbatim, in any letter case.
EveryVocabularySkillIsDetected ==
    pc = "done" =>
        \A skill \in RECOGNIZED_SKILLS :
            Contains(Lower(resume_text), skill) => skill \in resume_skills

-----------------------------------------------------------------------------
(* Long careers: compute_experience_score on texts beyond twenty years.    *)

\* constants.py: the documented upper bound of experience for scoring.
MAX_EXPERIENCE_YEARS == 20

\* Stated years below, at and above MAX_EXPERIENCE_YEARS.
SeniorYears == {0, 10, 20, 25, 40}

SeniorTexts ==
    {""} \cup {ph[1] \o NumStr(n) \o ph[2] : n \in SeniorYears, ph \in ExperiencePhrasings}

InitSenior ==
    /\ OuterUnset
    /\ pc = "start"
    /\ PipelineUnset
    /\ resume_text \in SeniorTexts
    /\ job_description_text \in SeniorTexts
    /\ candidate_years = Unset
    /\ required_years = Unset
    /\ experience_score = Unset
    /\ earlier_call = <<>>
    /\ calls = 1
    /\ SkillsUnset
    /\ YearsUnset
    /\ FinalUnset
    /\ SimilarityUnset

SpecSenior == InitSenior /\ [][ComputeExperienceScore]_vars

\* C21: experience is capped at MAX_EXPERIENCE_YEARS = 20 years for scoring:
\* a text stating more than 20 years contributes at most 20 years to the
\* experience score, in the resume and in the job description alike.
ExperienceIsCappedAtMaximum ==
    pc = "done" =>
        experience_score =
            ExperienceScoreOf(RMin(candidate_years, <<MAX_EXPERIENCE_YEARS, 1>>),
                              RMin(required_years, <<MAX_EXPERIENCE_YEARS, 1>>))

-----------------------------------------------------------------------------
(* ml/scorer.py: compute_weighted_skill_score, with the categories and     *)
(* weights of ml/constants.py.                                             *)

\* constants.py:159-173
SKILL_CATEGORIES ==
    [core_ml |-> {"machine learning", "ml", "deep learning", "neural networks", "nlp",
                  "computer vision"},
     backend |-> {"python", "fastapi", "django", "flask", "rest api"},
     data    |-> {"sql", "mongodb", "pandas", "numpy"},
     devops  |-> {"docker", "kubernetes", "aws", "gcp", "azure"}]

\* constants.py:175-180: 0.4, 0.25, 0.2, 0.15
CATEGORY_WEIGHTS ==
    [core_ml |-> Rat(2, 5), backend |-> Rat(1, 4), data |-> Rat(1, 5), devops |-> Rat(3, 20)]

\* SKILL_CATEGORIES.items() in insertion order
CategoryItems == <<"core_ml", "backend", "data", "devops">>

\* scorer.py:228-231: `if not required: continue`
CategorySkipped(category, requirements) ==
    SKILL_CATEGORIES[category] \cap requirements = {}

\* scorer.py:232-233: len(matched) / len(required)
CategoryRatio(category, matches, requirements) ==
    Rat(Cardinality(SKILL_CATEGORIES[category] \cap matches),
        Cardinality(SKILL_CATEGORIES[category] \cap requirements))

\* Mutant: the accumulated sum returned as it is.
Unnormalized(score, total_weight) == score

\* scorer.py:238: score / total_weight
Normalized(score, total_weight) == RDiv(score, total_weight)

\* Mutant: no category scored as no match.
NoCategoryScoreZero == Zero

\* scorer.py:238: `else 1.0`
NoCategoryScore == One

\* scorer.py:227-238: the loop from `categories` on, then the return
RECURSIVE WeightedLoop(_, _, _, _, _)
WeightedLoop(categories, matches, requirements, score, total_weight) ==
    IF categories = <<>>
    THEN IF RLess(Zero, total_weight)
         THEN Normalized(score, total_weight)
         ELSE NoCategoryScore
    ELSE LET category == Head(categories)
             weight == CATEGORY_WEIGHTS[category]
         IN  IF CategorySkipped(category, requirements)
             THEN WeightedLoop(Tail(categories), matches, requirements, score, total_weight)
             ELSE WeightedLoop(Tail(categories), matches, requirements,
                               RAdd(score,
                                    RMul(CategoryRatio(category, matches, requirements),
                                         weight)),
                               RAdd(total_weight, weight))

\* scorer.py:222-238
compute_weighted_skill_score(matches, requirements) ==
    WeightedLoop(CategoryItems, matches, requirements, Zero, Zero)

\* Skills the two arguments are drawn from: two of one category, one of each
\* of the others, one of no category.
WeightedSkills == {"ml", "nlp", "python", "sql", "docker", "java"}

InitWeighted ==
    /\ pc = "start"
    /\ matched_skills \in SUBSET WeightedSkills
    /\ required_skills \in SUBSET WeightedSkills
    /\ weighted_skill_score = Unset
    /\ SemanticUnset
    /\ UploadUnset
    /\ PipelineUnset
    /\ TextsUnset
    /\ resume_skills = Unset
    /\ jd_required_skills = Unset
    /\ missing_skills = Unset
    /\ overlap_score = Unset
    /\ YearsUnset
    /\ ExperienceUnset
    /\ FinalUnset
    /\ SimilarityUnset

ComputeWeightedSkillScore ==
    /\ pc = "start"
    /\ weighted_skill_score' = compute_weighted_skill_score(matched_skills, required_skills)
    /\ pc' = "done"
    /\ UNCHANGED <<required_skills, semanticVars, uploadVars, pipelineVars, textVars, skillVars,
                   yearVars, experienceVars, finalVars, similarityVars>>

SpecWeighted == InitWeighted /\ [][ComputeWeightedSkillScore]_vars

\* The categories that hold at least one required skill.
RequiredCategories == {category \in DOMAIN SKILL_CATEGORIES : ~CategorySkipped(category, required_skills)}

RECURSIVE RSumOver(_, _)
RSumOver(f, S) ==
    IF S = {} THEN Zero
    ELSE LET x == CHOOSE y \in S : TRUE IN RAdd(f[x], RSumOver(f, S \ {x}))

\* C22: for each category with at least one required skill the function
\* accumulates (matched in category / required in category) times the category
\* weight and returns that sum divided by the sum of the weights of exactly
\* those categories; with no such category it returns 1.0.
WeightedScoreIsNormalizedWeightedSum ==
    pc = "done" =>
        LET share == [category \in RequiredCategories |->
                        RMul(CategoryRatio(category, matched_skills, required_skills),
                             CATEGORY_WEIGHTS[category])]
            used == [category \in RequiredCategories |-> CATEGORY_WEIGHTS[category]]
        IN  IF RequiredCategories = {}
            THEN weighted_skill_score = One
            ELSE RMul(weighted_skill_score, RSumOver(used, RequiredCategories))
                    = RSumOver(share, RequiredCategories)

\* A finished call in which two categories are used, one partly matched, and
\* one category is skipped.
WeightedScoreIsNormalizedWeightedSum_witness ==
    /\ pc = "done"
    /\ required_skills = {"ml", "nlp", "python", "java"}
    /\ matched_skills = {"ml", "python"}
    /\ weighted_skill_score = Rat(9, 13)

\* C30: when every matched skill is a required one the weighted score lies in
\* [0, 1]; when every required skill lies outside all categories (such as
\* {"java"}) the score is 1.0 even if nothing is matched.
WeightedScoreIsInUnitRange ==
    pc = "done" =>
        /\ matched_skills \subseteq required_skills =>
                RLeq(Zero, weighted_skill_score) /\ RLeq(weighted_skill_score, One)
        /\ (\A category \in DOMAIN SKILL_CATEGORIES :
                required_skills \cap SKILL_CATEGORIES[category] = {}) =>
                weighted_skill_score = One

\* A finished call with required = {"java"} and nothing matched.
WeightedScoreIsInUnitRange_witness ==
    /\ pc = "done"
    /\ required_skills = {"java"}
    /\ matched_skills = {}
    /\ weighted_skill_score = One

-----------------------------------------------------------------------------
(* ml/skill_extractor.py: semantic_skill_match.  Embedding components are  *)
(* exact rationals.                                                        *)

\* np.dot of two vectors
RECURSIVE RDot(_, _)
RDot(u, v) ==
    IF u = <<>> THEN Zero ELSE RAdd(RMul(Head(u), Head(v)), RDot(Tail(u), Tail(v)))

\* skill_extractor.py:198: np.dot(resume_embeddings, emb), one entry per row
Sims(embeddings, emb) ==
    [i \in 1..embeddings.shape[1] |-> RDot(Row(embeddings, i), emb)]

\* skill_extractor.py:199: np.max(sims) >= threshold
ReachesThreshold(sims, limit) == RLeq(limit, RowMax(sims))

\* skill_extractor.py:191-201
semantic_skill_match(skills, embeddings, limit) ==
    {skill \in DOMAIN skills : ReachesThreshold(Sims(embeddings, skills[skill]), limit)}

\* skill_extractor.py:194: threshold: float = 0.65
DefaultThreshold == Rat(13, 20)

Thresholds == {DefaultThreshold, Rat(1, 2)}
SemanticSkills == {"python", "sql"}
SemanticVectors ==
    {<<One, Zero>>, <<Zero, One>>, <<Rat(13, 20), Zero>>, <<Rat(1, 2), Zero>>,
     <<Rat(3, 5), Rat(4, 5)>>, <<Rat(-1, 1), Zero>>}
MaxSentenceRows == 2

SentenceMatrices ==
    UNION {{[shape |-> <<n, 2>>, data |-> Flatten(rows)] : rows \in [1..n -> SemanticVectors]}
               : n \in 1..MaxSentenceRows}

InitSemantic ==
    /\ pc = "start"
    /\ skill_embeddings \in UNION {[known -> SemanticVectors] : known \in SUBSET SemanticSkills}
    /\ resume_embeddings \in SentenceMatrices
    /\ threshold \in Thresholds
    /\ semantic_matched = Unset
    /\ WeightedUnset
    /\ UploadUnset
    /\ SentencesUnset
    /\ ExplanationUnset
    /\ ServiceUnset
    /\ embedding_model = Unset
    /\ resume_sentences = Unset
    /\ jd_sentences = Unset
    /\ jd_embeddings = Unset
    /\ steps = Unset
    /\ result = Unset
    /\ TextsUnset
    /\ SkillsUnset
    /\ YearsUnset
    /\ ExperienceUnset
    /\ FinalUnset
    /\ SimilarityUnset

SemanticSkillMatch ==
    /\ pc = "start"
    /\ semantic_matched' = semantic_skill_match(skill_embeddings, resume_embeddings, threshold)
    /\ pc' = "done"
    /\ UNCHANGED <<skill_embeddings, threshold, weightedVars, uploadVars, pipelineVars, textVars,
                   skillVars, yearVars, experienceVars, finalVars, similarityVars>>

SpecSemantic == InitSemantic /\ [][SemanticSkillMatch]_vars

\* C23: a skill is flagged exactly when the similarity between its embedding
\* and some resume sentence embedding is greater than the threshold; a skill
\* whose largest similarity does not exceed the threshold is not flagged.
FlaggedExactlyAboveThreshold ==
    pc = "done" =>
        \A skill \in DOMAIN skill_embeddings :
            skill \in semantic_matched <=>
                \E i \in 1..resume_embeddings.shape[1] :
                    RLess(threshold, RDot(Row(resume_embeddings, i), skill_embeddings[skill]))

-----------------------------------------------------------------------------
(* ml/scorer.py: what the pattern of _extract_years_of_experience counts.  *)

\* Texts around the two boundary phrasings: a plus sign set off by spaces,
\* and a longer word that starts with "year".
YearPhraseWords == {"5", "2023 ", " + ", " ", "+", "year", "Years", "yearly"}
MaxYearPhraseWords == 3

InitYearPhrases ==
    /\ OuterUnset
    /\ pc = "start"
    /\ PipelineUnset
    /\ text \in Phrases(YearPhraseWords, MaxYearPhraseWords)
    /\ year_mentions = Unset
    /\ max_years = Unset
    /\ TextsUnset
    /\ SkillsUnset
    /\ ExperienceUnset
    /\ FinalUnset
    /\ SimilarityUnset

SpecYearPhrases == InitYearPhrases /\ [][ExtractYears]_vars

AllIn(s, cls) == \A i \in 1..Len(s) : IsIn(cls, CharAt(s, i))

\* Digits, or digits "." digits.
IsNumber(s) ==
    \/ s # "" /\ AllIn(s, Digits)
    \/ \E dot \in 2..(Len(s) - 1) :
           /\ CharAt(s, dot) = "."
           /\ AllIn(Slice(s, 1, dot - 1), Digits)
           /\ AllIn(Slice(s, dot + 1, Len(s)), Digits)

\* Whitespace with at most one plus sign anywhere in it.
IsGapAroundPlus(s) ==
    /\ AllIn(s, Whitespace \o "+")
    /\ Cardinality({i \in 1..Len(s) : CharAt(s, i) = "+"}) <= 1

\* An optional plus sign, then whitespace.
IsGapAfterPlus(s) ==
    \/ AllIn(s, Whitespace)
    \/ s # "" /\ CharAt(s, 1) = "+" /\ AllIn(Slice(s, 2, Len(s)), Whitespace)

\* The positions just past an occurrence of `number` in s.
EndsOf(s, number) ==
    {i + Len(number) : i \in {j \in 1..(Len(s) - Len(number) + 1) :
                                  SubSeq(s, j, j + Len(number) - 1) = number}}

\* The word "year" or "years" starts at u and ends where the word ends.
WordYearAt(s, u) ==
    \E e \in {u + 4, u + 5} :
        /\ e <= Len(s) + 1
        /\ Slice(s, u, e - 1) \in {"year", "years"}
        /\ e <= Len(s) => ~IsIn(LowerCase \o Digits \o "_", CharAt(s, e))

\* The letters "year" start at u, whatever follows them.
LettersYearAt(s, u) == u + 3 <= Len(s) /\ SubSeq(s, u, u + 3) = "year"

\* C27: a number is counted only when it is immediately followed by an
\* optional '+', optional whitespace and the word "year" or "years": not when
\* the word is longer ("2023 yearly"), not when whitespace separates the
\* number from the '+' ("5 + years").
CountedOnlyBeforePlusThenWordYear ==
    pc = "done" =>
        \A lowered \in {Lower(text)} :
            \A k \in 1..Len(year_mentions) :
                \E b \in EndsOf(lowered, year_mentions[k]) :
                    \E u \in b..(Len(text) + 1) :
                        /\ IsGapAfterPlus(Slice(lowered, b, u - 1))
                        /\ WordYearAt(lowered, u)

\* C27, amended: every counted mention is a number followed by optional
\* whitespace, an optional '+', optional whitespace and the letters "year",
\* whatever comes after them; and a text holding such a number has at least
\* one mention counted.
CountedBeforeGapThenLettersYear ==
    pc = "done" =>
        \A lowered \in {Lower(text)} :
            /\ \A k \in 1..Len(year_mentions) :
                   /\ IsNumber(year_mentions[k])
                   /\ \E b \in EndsOf(lowered, year_mentions[k]) :
                          \E u \in b..(Len(text) + 1) :
                              /\ IsGapAroundPlus(Slice(lowered, b, u - 1))
                              /\ LettersYearAt(lowered, u)
            /\ year_mentions # <<>> <=>
                   \E u \in 1..(Len(text) + 1) :
                       /\ LettersYearAt(lowered, u)
                       /\ \E b \in 2..u :
                              /\ IsGapAroundPlus(Slice(lowered, b, u - 1))
                              /\ \E a \in 1..(b - 1) : IsNumber(Slice(lowered, a, b - 1))

\* "5 + years" has been searched and its 5 counted.
CountedBeforeGapThenLettersYear_witness ==
    /\ pc = "done"
    /\ text = "5 + Years"
    /\ year_mentions = <<"5">>
    /\ max_years = Rat(5, 1)

-----------------------------------------------------------------------------
(* app/services/pdf_parser.py: extract_text_from_pdf.  The uploaded bytes   *)
(* are modelled by what PyPDF2 makes of them: the exception PdfReader       *)
(* raises on them, if any, and for every page the text extract_text         *)
(* returns or the exception it raises.                                      *)

\* " ".join(text_parts)
RECURSIVE JoinWithSpaces(_)
JoinWithSpaces(text_parts) ==
    IF text_parts = <<>> THEN ""
    ELSE IF Len(text_parts) = 1 THEN text_parts[1]
    ELSE text_parts[1] \o " " \o JoinWithSpaces(Tail(text_parts))

\* pdf_parser.py:51-55: the loop from page i on; it ends with the list of
\* non-empty page texts or with the exception of the first page that raises.
RECURSIVE ReadPages(_, _, _)
ReadPages(pages, i, text_parts) ==
    IF i > Len(pages) THEN [raised |-> "", text_parts |-> text_parts]
    ELSE IF pages[i].raises # "" THEN [raised |-> pages[i].raises, text_parts |-> text_parts]
    ELSE ReadPages(pages, i + 1,
                   IF pages[i].page_text # "" THEN Append(text_parts, pages[i].page_text)
                   ELSE text_parts)

\* pdf_parser.py:43-64: the body of the try statement
TryBody(content) ==
    IF content.reader # ""
    THEN [raised |-> content.reader, full_text |-> Unset, returned |-> Unset]
    ELSE LET read == ReadPages(content.pages, 1, <<>>)
             joined == JoinWithSpaces(read.text_parts)
         IN IF read.raised # ""
            THEN [raised |-> read.raised, full_text |-> Unset, returned |-> Unset]
            ELSE IF joined = "" \/ Strip(joined) = ""
            THEN [raised |-> "EmptyPDFError", full_text |-> joined, returned |-> Unset]
            ELSE [raised |-> "", full_text |-> joined, returned |-> Strip(joined)]

\* Mutant: the catch-all clause placed before the clause for EmptyPDFError.
CatchAllFirst(exception) ==
    IF exception = "PdfReadError" THEN "InvalidFileError" ELSE "PDFExtractionError"

\* pdf_parser.py:66-78: the except clauses, in their order
Except(exception) ==
    IF exception = "PdfReadError" THEN "InvalidFileError"
    ELSE IF exception = "EmptyPDFError" THEN "EmptyPDFError"
    ELSE "PDFExtractionError"

\* pdf_parser.py:17-78
extract_text_from_pdf(content) ==
    LET body == TryBody(content)
    IN IF body.raised = "" THEN body
       ELSE [raised |-> Except(body.raised), full_text |-> body.full_text, returned |-> Unset]

\* What one page can give: a text, no text, or an exception.
PageOutcomes ==
    {[raises |-> "", page_text |-> t] : t \in {"", " ", "Python. ", "\n5 years"}}
        \cup {[raises |-> e, page_text |-> ""] : e \in {"PdfReadError", "KeyError"}}
MaxPages == 3

\* The uploads: those PdfReader rejects, and those it opens.
Uploads ==
    {[reader |-> e, pages |-> <<>>] : e \in {"PdfReadError", "ValueError"}}
        \cup UNION {{[reader |-> "", pages |-> pages] : pages \in [1..n -> PageOutcomes]}
                        : n \in 0..MaxPages}

InitPdf ==
    /\ pc = "start"
    /\ file_content \in Uploads
    /\ full_text = Unset
    /\ resume_text = Unset
    /\ raised = ""
    /\ filename = Unset
    /\ response = Unset
    /\ job_description_text = Unset
    /\ WeightedUnset
    /\ SemanticUnset
    /\ PipelineUnset
    /\ SkillsUnset
    /\ YearsUnset
    /\ ExperienceUnset
    /\ FinalUnset
    /\ source_embeddings = Unset
    /\ target_embeddings = Unset
    /\ max_similarities = Unset
    /\ average_similarity = Unset

\* extract_text_from_pdf(file_content)
ExtractTextFromPdf ==
    /\ pc = "start"
    /\ LET outcome == extract_text_from_pdf(file_content)
       IN /\ full_text' = outcome.full_text
          /\ raised' = outcome.raised
          /\ resume_text' = outcome.returned
          /\ pc' = IF outcome.raised = "" THEN "done" ELSE "raised"
    /\ UNCHANGED <<file_content, filename, response, job_description_text, weightedVars,
                   semanticVars, pipelineVars, skillVars, yearVars, experienceVars, finalVars,
                   source_embeddings, target_embeddings, max_similarities,
                   average_similarity>>

SpecPdf == InitPdf /\ [][ExtractTextFromPdf]_vars

\* The exceptions PyPDF2 raises on the upload, in the order the function
\* would meet them.
PdfExceptions ==
    SelectSeq(<<file_content.reader>>
                  \o [i \in 1..Len(file_content.pages) |-> file_content.pages[i].raises],
              LAMBDA e : e # "")

\* The texts of the pages that have any, in page order.
PageTexts ==
    SelectSeq([i \in 1..Len(file_content.pages) |-> file_content.pages[i].page_text],
              LAMBDA t : t # "")

\* C26: extract_text_from_pdf has exactly four outcomes: InvalidFileError on
\* a PDF read error; EmptyPDFError, not turned into PDFExtractionError, when
\* the extracted text is empty or whitespace only; PDFExtractionError on any
\* other exception; otherwise the page texts joined by spaces and stripped,
\* a text that is never empty or whitespace only.
PdfExtractionHasFourOutcomes ==
    pc # "start" =>
        IF PdfExceptions # <<>>
        THEN /\ pc = "raised"
             /\ raised = IF Head(PdfExceptions) = "PdfReadError" THEN "InvalidFileError"
                         ELSE "PDFExtractionError"
        ELSE IF Strip(JoinWithSpaces(PageTexts)) = ""
        THEN pc = "raised" /\ raised = "EmptyPDFError"
        ELSE /\ pc = "done"
             /\ raised = ""
             /\ resume_text = Strip(JoinWithSpaces(PageTexts))
             /\ resume_text # ""
             /\ ~IsBlank(resume_text)

\* A PDF whose pages hold nothing but whitespace: EmptyPDFError has left the
\* function as it was raised.
PdfExtractionHasFourOutcomes_witness ==
    /\ pc = "raised"
    /\ raised = "EmptyPDFError"
    /\ Len(file_content.pages) = 2
    /\ full_text = "   "

-----------------------------------------------------------------------------
(* app/main.py: the handler of POST /evaluate.                             *)

\* str.endswith(suffix)
EndsWith(s, suffix) ==
    Len(s) >= Len(suffix) /\ Slice(s, Len(s) - Len(suffix) + 1, Len(s)) = suffix

\* Mutant: no check of the file name.
AnyExtension(name) == TRUE

\* main.py:135: resume.filename.lower().endswith('.pdf')
ExtensionAccepted(name) == EndsWith(Lower(name), ".pdf")

\* MLService.evaluate_fit(resume_text, job_description) under the embedding
\* model the pipeline of this call loads: how the call can end, and how many
\* times it invoked analyze_resume_job_fit.
evaluate_fit(model, resume, job_description) ==
    IF JobDescriptionRejected(job_description)
    THEN {[raised |-> "EmptyJobDescriptionError", result |-> Unset, pipeline_calls |-> 0]}
    ELSE {[raised |-> outcome.raised, result |-> outcome.result, pipeline_calls |-> 1]
              : outcome \in evaluate(model, resume, job_description)}

\* The steps of the handler, in the order of its statements.
HandlerSteps == <<"extension", "read", "extract", "validate", "pipeline">>

Filenames == {"cv.pdf", "CV.PDF", "cv.txt", "pdf", "cv.pdf.exe"}
HandlerUploads == {upload \in Uploads : Len(upload.pages) <= 1}
HandlerJobDescriptions == {"", " \n", "Python. ", "Java, SQL 5 years. "}

InitHandler ==
    /\ pc = "start"
    /\ filename \in Filenames
    /\ file_content \in HandlerUploads
    /\ job_description_text \in HandlerJobDescriptions
    /\ embedding_model \in EmbeddingModels
    /\ resume_text = Unset
    /\ steps = <<>>
    /\ response = Unset
    /\ raised = ""
    /\ pipeline_calls = 0
    /\ _pipeline_initialized = FALSE
    /\ full_text = Unset
    /\ pipelines_constructed = Unset
    /\ requests = Unset
    /\ result = Unset
    /\ resume_sentences = Unset
    /\ jd_sentences = Unset
    /\ resume_embeddings = Unset
    /\ jd_embeddings = Unset
    /\ source_embeddings = Unset
    /\ target_embeddings = Unset
    /\ max_similarities = Unset
    /\ average_similarity = Unset
    /\ WeightedUnset
    /\ SemanticUnset
    /\ SentencesUnset
    /\ ExplanationUnset
    /\ SkillsUnset
    /\ YearsUnset
    /\ ExperienceUnset
    /\ FinalUnset

\* evaluate_resume_job_fit(resume, job_description), main.py:98-151
EvaluateResumeJobFit ==
    /\ pc = "start"
    /\ IF ~ExtensionAccepted(filename)
       THEN /\ raised' = "InvalidFileError"
            /\ steps' = SubSeq(HandlerSteps, 1, 1)
            /\ pc' = "raised"
            /\ UNCHANGED <<resume_text, response, pipeline_calls, _pipeline_initialized>>
       ELSE LET extracted == extract_text_from_pdf(file_content)
            IN IF extracted.raised # ""
               THEN /\ raised' = extracted.raised
                    /\ steps' = SubSeq(HandlerSteps, 1, 3)
                    /\ pc' = "raised"
                    /\ UNCHANGED <<resume_text, response, pipeline_calls,
                                   _pipeline_initialized>>
               ELSE /\ resume_text' = extracted.returned
                    /\ \E outcome \in evaluate_fit(embedding_model, extracted.returned,
                                                  job_description_text) :
                           /\ pipeline_calls' = outcome.pipeline_calls
                           /\ steps' = SubSeq(HandlerSteps, 1, 4 + outcome.pipeline_calls)
                           /\ raised' = outcome.raised
                           /\ response' = outcome.result
                           /\ _pipeline_initialized' =
                                  IF outcome.raised = "" THEN TRUE
                                  ELSE FlagAfterRaise(_pipeline_initialized)
                           /\ pc' = IF outcome.raised = "" THEN "done" ELSE "raised"
    /\ UNCHANGED <<filename, file_content, job_description_text, embedding_model, full_text,
                   pipelines_constructed, requests, result, resume_sentences, jd_sentences,
                   resume_embeddings, jd_embeddings, source_embeddings, target_embeddings,
                   max_similarities, average_similarity, weightedVars, semanticVars,
                   sentenceVars, explanationVars, skillVars, yearVars, experienceVars,
                   finalVars>>

SpecHandler == InitHandler /\ [][EvaluateResumeJobFit]_vars

\* The errors of the PDF extraction step.
PdfErrors == {"InvalidFileError", "EmptyPDFError", "PDFExtractionError"}

\* C25: the handler runs the file-extension check, the read of the upload,
\* the PDF text extraction, the job-description validation and the ML
\* pipeline strictly in this order; the first failing step decides the error
\* (a file name that does not end in .pdf gives InvalidFileError even with an
\* empty job description), and the pipeline is invoked only after every
\* earlier step has succeeded.
HandlerStepsRunInOrder ==
    pc # "start" =>
        LET wrong_extension ==
                \/ Len(filename) < 4
                \/ Lower(SubSeq(filename, Len(filename) - 3, Len(filename))) # ".pdf"
            no_text ==
                \/ PdfExceptions # <<>>
                \/ IsBlank(JoinWithSpaces(PageTexts))
            no_job_description == IsBlank(job_description_text)
        IN  /\ steps = SubSeq(HandlerSteps, 1, Len(steps))
            /\ Len(steps) = IF wrong_extension THEN 1
                            ELSE IF no_text THEN 3
                            ELSE IF no_job_description THEN 4
                            ELSE 5
            /\ wrong_extension => raised = "InvalidFileError"
            /\ (~wrong_extension /\ no_text) => raised \in PdfErrors
            /\ (~wrong_extension /\ ~no_text /\ no_job_description) =>
                   raised = "EmptyJobDescriptionError"
            /\ (~wrong_extension /\ ~no_text /\ ~no_job_description) =>
                   raised \notin PdfErrors \cup {"EmptyJobDescriptionError"}
            /\ pipeline_calls = IF Len(steps) = 5 THEN 1 ELSE 0
            /\ pc = "done" <=> raised = ""
            /\ pc = "done" => (Len(steps) = 5 /\ "fit_score" \in DOMAIN response)

\* A file that is not a PDF sent with an empty job description: the file
\* name decided, and no later step ran.
HandlerStepsRunInOrder_witness ==
    /\ pc = "raised"
    /\ filename = "cv.txt"
    /\ job_description_text = ""
    /\ raised = "InvalidFileError"
    /\ steps = <<"extension">>
    /\ pipeline_calls = 0

====
